---- MODULE Spec2Model ----
(***************************************************************************)
(* Model of the link-checker service of RuvinSL/webpage-analyzer:          *)
(* core.ConcurrentLinkChecker (worker pool, Start, Stop, CheckLinks,       *)
(* CheckLink) and the single-link handler that calls CheckLink directly.   *)
(* An analysis request is modelled along its way through the gateway's     *)
(* APIHandler.AnalyzeURL, the analyzer's AnalyzerHandler.Analyze and        *)
(* Analyzer.AnalyzeURL (fetch, parse, link check, summary).                *)
(*                                                                         *)
(* Goroutines are modelled as processes with explicit positions; channels  *)
(* are bounded sequences with a closed flag.  A send on a closed channel   *)
(* and a close of a closed channel panic and end the process (panicked).   *)
(***************************************************************************)
EXTENDS Integers, Sequences, FiniteSets, TLC

VARIABLES
    jobQueue,       \* c.jobQueue: buffered channel of linkCheckJob
    jobClosed,      \* close(c.jobQueue) has happened
    resultQueue,    \* c.resultQueue: buffered channel of models.LinkStatus
    resultClosed,   \* close(c.resultQueue) has happened
    stopClosed,     \* close(c.stopChan) has happened
    startCtxDone,   \* the context given to Start is cancelled
    nStarts,        \* number of Start calls so far
    wState,         \* per pool worker: position in worker()
    wJob,           \* per pool worker: the job it holds
    wStatus,        \* per pool worker: the status it is about to send
    stopPc,         \* per Stop call: position in Stop()
    pc,             \* per CheckLinks call: position of the calling goroutine
    links,          \* per CheckLinks call: the links argument
    done,           \* per CheckLinks call: checkCtx expired or was cancelled
                    \* by the caller before the call returned
    idx,            \* per CheckLinks call: loop index of the submit loop
    sub,            \* per CheckLinks call, per index: submitter goroutine
    collector,      \* per CheckLinks call: the result collector goroutine
    resultMap,      \* per CheckLinks call: resultMap (URL -> LinkStatus)
    results,        \* per CheckLinks call: the returned slice
    retErr,         \* per CheckLinks call: the returned error
    single,         \* per single-link request: position in CheckSingleLink
    singleLink,     \* per single-link request: req.Link
    singleResp,     \* per single-link request: what httpClient.Get returned
    singleStatus,   \* per single-link request: status returned by CheckLink
    panicked,       \* a goroutine panicked (the process is gone)
    enqueued,       \* history: jobs placed on jobQueue per call and index
    probes,         \* history: probes started per call and index
    earlyProbe,     \* history: a probe of the call started before checkCtx was done
    foreign,        \* history: the call's collector received another call's result
    aPc,            \* analysis request: position along gateway, handler, AnalyzeURL
    aVia,           \* analysis request: entered at the gateway or at the analyzer
    gBody,          \* analysis request: body the gateway received
    aBody,          \* analysis request: body the analyzer handler received
    aUrl,           \* AnalyzeURL: url
    aCtxDone,       \* analysis request: the caller's deadline has fired
    aFetched,       \* AnalyzeURL: what httpClient.Get returned for the root
    aPage,          \* AnalyzeURL: the root document (response.Body)
    aLinks,         \* AnalyzeURL: parsed.Links
    aCheck,         \* AnalyzeURL: what linkChecker.CheckLinks returned
    aRet,           \* AnalyzeURL: the returned result and error
    aHttp,          \* the analyzer handler's answer
    gRet,           \* gateway: what analyzerClient.Analyze returned
    gHttp,          \* the gateway's answer
    analyzerCalls,  \* history: calls of AnalyzeURL
    parserCalls,    \* history: calls of the HTML parser
    checkerCalls,   \* history: calls of linkChecker.CheckLinks
    checkerInput,   \* history: the link list handed to CheckLinks
    hPc,            \* batch probe request: position in LinkHandler.CheckLinks
    hBody,          \* batch probe request: the request body
    hRet,           \* batch probe request: what linkChecker.CheckLinks returned
    hHttp,          \* batch probe request: the handler's answer
    hCalls,         \* history: calls of linkChecker.CheckLinks by the handler
    gHdrId,         \* analysis request: X-Request-ID the gateway received
    gCtxId,         \* analysis request: "request_id" of the gateway's context
    aHdrId,         \* analysis request: X-Request-ID the analyzer received
    cHdrId,         \* analysis request: X-Request-ID of the batch request
    aServed,        \* history: the root document as the server sent it
    pPc,            \* a ParseHTML call: position
    pDoc,           \* a ParseHTML call: the document (anchors, forms, titles)
    pBase,          \* a ParseHTML call: the base URL
    pOut,           \* a ParseHTML call: the result (Links, HasLoginForm, Title)
    gRespId,        \* analysis request: X-Request-ID of the gateway's answer
    aMetrics,       \* history: the success flags AnalyzeURL gave RecordAnalysis
    bPc,            \* gateway batch request: position in BatchAnalyze
    bBody,          \* gateway batch request: the request body
    bIdx,           \* gateway batch request: index of the loop over req.URLs
    bCtxDone,       \* gateway batch request: the request's context is done
    bResults,       \* gateway batch request: results
    bErrors,        \* gateway batch request: errors
    bHttp,          \* gateway batch request: the handler's answer
    bCalls          \* history: the calls of analyzerClient.Analyze: the URL
                    \* and whether the call returned a result

vars == <<jobQueue, jobClosed, resultQueue, resultClosed, stopClosed,
          startCtxDone, nStarts, wState, wJob, wStatus, stopPc, pc, links,
          done, idx, sub, collector, resultMap, results, retErr, single,
          singleLink, singleResp, singleStatus, panicked, enqueued, probes, earlyProbe,
          foreign, aPc, aVia, gBody, aBody, aUrl, aCtxDone, aFetched, aPage,
          aLinks, aCheck, aRet, aHttp, gRet, gHttp, analyzerCalls,
          parserCalls, checkerCalls, checkerInput, hPc, hBody, hRet, hHttp,
          hCalls, gHdrId, gCtxId, aHdrId, cHdrId, aServed, pPc, pDoc,
          pBase, pOut, gRespId, aMetrics, bPc, bBody, bIdx, bCtxDone,
          bResults, bErrors, bHttp, bCalls>>

chanVars   == <<jobQueue, jobClosed, resultQueue, resultClosed, stopClosed>>
poolVars   == <<startCtxDone, nStarts, wState, wJob, wStatus, stopPc>>
batchVars  == <<pc, links, done, idx, sub, collector, resultMap, results, retErr>>
singleVars == <<single, singleLink, singleResp, singleStatus>>
histVars   == <<enqueued, probes, earlyProbe, foreign>>
analyzeVars == <<aPc, aVia, gBody, aBody, aUrl, aCtxDone, aFetched, aPage,
                 aLinks, aCheck, aRet, aHttp, gRet, gHttp, analyzerCalls,
                 parserCalls, checkerCalls, checkerInput, gHdrId, gCtxId,
                 aHdrId, cHdrId, aServed, gRespId, aMetrics>>
parseVars == <<pPc, pDoc, pBase, pOut>>
gwBatchVars == <<bPc, bBody, bIdx, bCtxDone, bResults, bErrors, bHttp, bCalls>>
handlerVars == <<hPc, hBody, hRet, hHttp, hCalls, parseVars, gwBatchVars>>
checkerVars == <<chanVars, poolVars, batchVars, singleVars, histVars,
                 panicked, handlerVars>>

----------------------------------------------------------------------------
(* Bounds of the model *)

W == 1              \* workerPoolSize
MaxStarts == 1      \* Start calls
MaxStops == 1       \* Stop calls
NB == 2             \* CheckLinks calls
MaxLinks == 2       \* len(links) of one call
MaxSingle == 1      \* single-link requests
LifeStarts == 2     \* Start calls on one checker over its life
LifeStops == 2      \* Stop calls on one checker over its life

QueueCap == W * 2   \* make(chan ..., workerPoolSize*2)

Workers == 1..(LifeStarts * W)
Stops   == 1..LifeStops
Batches == 1..NB
Slots   == 1..MaxLinks
Singles == 1..MaxSingle

----------------------------------------------------------------------------
(* Data: models.Link, models.LinkStatus, models.HTTPResponse *)

URLs == {"http://a", "http://b"}

LinkA == [URL |-> "http://a", Text |-> "x", Type |-> "internal"]

Links == { LinkA,
           [URL |-> "http://b", Text |-> "y", Type |-> "external"] }

NoLink == [URL |-> "", Text |-> "", Type |-> ""]

NoStatus == [Link |-> NoLink, Accessible |-> FALSE, StatusCode |-> 0,
             Error |-> ""]

\* an element of resultQueue: the status sent, and (history only) the
\* CheckLinks call whose worker job or submitter sent it
Sent(status, b) == [status |-> status, src |-> b]

NoJob == [b |-> 0, i |-> 0, link |-> NoLink]

\* outcome of httpClient.Get: err = "" stands for a nil error
NilErr == ""

Resp(code) == [err |-> NilErr, code |-> code]
ErrResp(msg) == [err |-> msg, code |-> 0]

ErrCtx == "request failed: context deadline exceeded"
ErrConn == "request failed: connection refused"
ErrRead == "failed to read response: unexpected EOF"
ErrCreate == "failed to create request: invalid URL"

\* responses the pool's probes draw from
PoolResponses == { Resp(200), ErrResp(ErrCtx) }

\* responses of the service specification
ServiceResponses == { Resp(200), Resp(404), ErrResp(ErrCtx) }

\* responses of the probe specification: every HTTP status code
Codes == 100..599
AllResponses == { Resp(c) : c \in Codes }
                \cup { ErrResp(m) : m \in {ErrCtx, ErrConn, ErrRead, ErrCreate} }

\* Client.Get under a context: a cancelled context makes client.Do fail
Get(ctxDone, resp) == IF ctxDone THEN ErrResp(ErrCtx) ELSE resp

\* fmt.Sprintf("HTTP %d", code)
HTTPError(code) == "HTTP " \o ToString(code)

\* CheckLink with the upper bound of the accessible range included
CheckLinkUpTo400(link, resp) ==
    IF resp.err # NilErr
    THEN [Link |-> link, Accessible |-> FALSE, StatusCode |-> 0,
          Error |-> resp.err]
    ELSE LET acc == resp.code >= 200 /\ resp.code <= 400
         IN [Link |-> link, Accessible |-> acc, StatusCode |-> resp.code,
             Error |-> IF ~acc THEN HTTPError(resp.code) ELSE ""]

\* CheckLink that leaves Error unset for a completed probe
CheckLinkNoHTTPError(link, resp) ==
    IF resp.err # NilErr
    THEN [Link |-> link, Accessible |-> FALSE, StatusCode |-> 0,
          Error |-> resp.err]
    ELSE [Link |-> link,
          Accessible |-> resp.code >= 200 /\ resp.code < 400,
          StatusCode |-> resp.code, Error |-> ""]

\* ConcurrentLinkChecker.CheckLink, given what httpClient.Get returned
CheckLink(link, resp) ==
    IF resp.err # NilErr
    THEN [Link |-> link, Accessible |-> FALSE, StatusCode |-> 0,
          Error |-> resp.err]
    ELSE LET acc == resp.code >= 200 /\ resp.code < 400
         IN [Link |-> link, Accessible |-> acc, StatusCode |-> resp.code,
             Error |-> IF ~acc THEN HTTPError(resp.code) ELSE ""]

\* the status a submitter sends when checkCtx wins against the job send
CheckTimeout(link) ==
    [Link |-> link, Accessible |-> FALSE, StatusCode |-> 0,
     Error |-> "Check timeout"]

NotCheckedAsTimeout(link) ==
    [Link |-> link, Accessible |-> FALSE, StatusCode |-> 0,
     Error |-> "Check timeout"]

\* the status CheckLinks appends for a link with no entry in resultMap
NotChecked(link) ==
    [Link |-> link, Accessible |-> FALSE, StatusCode |-> 0,
     Error |-> "Not checked"]

\* resultMap[status.Link.URL] = status
MapPut(rm, status) ==
    [u \in (DOMAIN rm) \cup {status.Link.URL} |->
        IF u = status.Link.URL THEN status ELSE rm[u]]

\* the iteration that appends only the statuses it finds
AppendStatusFoundOnly(acc, link, rm) ==
    IF link.URL \in DOMAIN rm THEN Append(acc, rm[link.URL]) ELSE acc

\* the iteration that takes the statuses in the map's order, not by the
\* link's URL
AppendStatusMapOrder(acc, link, rm) ==
    LET rest == { u \in DOMAIN rm :
                    \A j \in 1..Len(acc) : acc[j].Link.URL # u }
    IN IF rest # {}
       THEN Append(acc, rm[CHOOSE u \in rest : TRUE])
       ELSE Append(acc, NotChecked(link))

\* one iteration of "for _, link := range links" over resultMap
AppendStatus(acc, link, rm) ==
    IF link.URL \in DOMAIN rm
    THEN Append(acc, rm[link.URL])
    ELSE Append(acc, NotChecked(link))

RECURSIVE MaterializeFrom(_, _, _, _)
MaterializeFrom(acc, ls, rm, i) ==
    IF i > Len(ls) THEN acc
    ELSE MaterializeFrom(AppendStatus(acc, ls[i], rm), ls, rm, i + 1)

\* "Convert map to slice maintaining order"
Materialize(ls, rm) == MaterializeFrom(<<>>, ls, rm, 1)

EmptyMap == [u \in {} |-> NoStatus]

LinkLists == UNION { [1..n -> Links] : n \in 0..MaxLinks }

\* the lists a call may be given.  The first call: every list up to the
\* naming of the URLs (its first link is LinkA); a later call: every list
\* of at most one link
ListsFor(b) == IF b = 1
               THEN { ls \in LinkLists : Len(ls) > 0 => ls[1] = LinkA }
               ELSE { ls \in LinkLists : Len(ls) <= 1 }

----------------------------------------------------------------------------
(* The analysis request: gateway, analyzer handler, Analyzer.AnalyzeURL *)

MaxAnchors == 2     \* anchors of the root document

RootURL == "http://a"

\* request bodies: not JSON, JSON without url, JSON with an empty url, JSON
\* with a url
Bodies == { [json |-> FALSE, hasUrl |-> FALSE, url |-> ""],
            [json |-> TRUE, hasUrl |-> FALSE, url |-> ""],
            [json |-> TRUE, hasUrl |-> TRUE, url |-> ""],
            [json |-> TRUE, hasUrl |-> TRUE, url |-> RootURL] }

\* json.Marshal(models.AnalysisRequest{URL: url})
Marshal(url) == [json |-> TRUE, hasUrl |-> TRUE, url |-> url]

\* json.NewDecoder(r.Body).Decode(&req) with req a models.AnalysisRequest
Decode(body) ==
    IF ~body.json
    THEN [err |-> "invalid character", URL |-> ""]
    ELSE [err |-> NilErr, URL |-> IF body.hasUrl THEN body.url ELSE ""]

\* strings.HasPrefix
HasPrefix(s, p) == Len(s) >= Len(p) /\ SubSeq(s, 1, Len(p)) = p

\* strings.Index of a one-character string from position i on, 0 if absent
RECURSIVE IndexFrom(_, _, _)
IndexFrom(s, c, i) ==
    IF i > Len(s) THEN 0
    ELSE IF SubSeq(s, i, i) = c THEN i
    ELSE IndexFrom(s, c, i + 1)

\* url.Parse of an http URL or of a path reference
URLParse(s) ==
    IF HasPrefix(s, "http://")
    THEN LET rest == SubSeq(s, 8, Len(s))
             k == IndexFrom(rest, "/", 1)
         IN [Scheme |-> "http",
             Host |-> IF k = 0 THEN rest ELSE SubSeq(rest, 1, k - 1),
             Path |-> IF k = 0 THEN "" ELSE SubSeq(rest, k, Len(rest))]
    ELSE [Scheme |-> "", Host |-> "", Path |-> s]

\* (*url.URL).IsAbs
IsAbs(u) == u.Scheme # ""

\* (*url.URL).ResolveReference for an absolute or an absolute-path reference
ResolveReference(base, ref) ==
    IF IsAbs(ref) THEN ref
    ELSE [Scheme |-> base.Scheme, Host |-> base.Host, Path |-> ref.Path]

\* (*url.URL).String
URLString(u) == u.Scheme \o "://" \o u.Host \o u.Path

\* href attributes of the anchors of a page
Hrefs == { "#top", "/x", "http://a/x", "http://b" }

\* Client.Get: const maxBodySize = 10 * 1024 * 1024
maxBodySize == 10 * 1024 * 1024

\* sizes in bytes of the root response bodies: small, exactly the cap, 11 MiB
BodySizes == { 4096, maxBodySize, 11 * 1024 * 1024 }

\* the root documents as the server sends them: whether the body is a gzip
\* stream (the Fetcher asks for one), whether that stream fails to
\* decompress, the size of the body in bytes, the href of each anchor in
\* document order, and how many of the anchors lie within the first
\* maxBodySize bytes of a plain body
Pages ==
    { [gzip |-> TRUE, gzipBad |-> TRUE, size |-> 4096, cut |-> 0,
       anchors |-> <<>>] }
    \cup UNION { UNION { UNION {
             { [gzip |-> z, gzipBad |-> FALSE, size |-> n, cut |-> c,
                anchors |-> a] :
                 c \in IF n > maxBodySize THEN 0..Len(a) ELSE {Len(a)} } :
               n \in BodySizes } :
             z \in BOOLEAN } :
           a \in UNION { [1..n -> Hrefs] : n \in 0..MaxAnchors } }

NoPage == [gzip |-> FALSE, gzipBad |-> FALSE, size |-> 0, cut |-> 0,
           anchors |-> <<>>]

\* Client.Get: io.ReadAll(io.LimitReader(resp.Body, maxBodySize)); the body
\* is read as sent (Accept-Encoding is set by hand, so the transport does
\* not decode it), and a gzip stream cut short no longer decompresses
LimitRead(page) ==
    IF page.size <= maxBodySize THEN page
    ELSE [gzip |-> page.gzip,
          gzipBad |-> page.gzipBad \/ page.gzip,
          size |-> maxBodySize,
          cut |-> page.cut,
          anchors |-> SubSeq(page.anchors, 1, page.cut)]

\* HTMLParser.determineLinkType
determineLinkType(linkURL, baseURL) ==
    IF linkURL.Host = "" \/ linkURL.Host = baseURL.Host
    THEN "internal" ELSE "external"

\* the hrefs extractLink answers nil for
SkippedHref(href) ==
    \/ href = ""
    \/ HasPrefix(href, "#")
    \/ HasPrefix(href, "javascript:")
    \/ HasPrefix(href, "mailto:")
    \/ HasPrefix(href, "tel:")

\* HTMLParser.extractLink for an anchor it does not skip
extractLink(href, baseURL) ==
    LET absoluteURL == ResolveReference(baseURL, URLParse(href))
    IN [URL |-> URLString(absoluteURL), Text |-> "x",
        Type |-> determineLinkType(absoluteURL, baseURL)]

\* HTMLParser.traverse restricted to the anchors: result.Links
RECURSIVE traverse(_, _, _, _)
traverse(acc, anchors, baseURL, i) ==
    IF i > Len(anchors) THEN acc
    ELSE traverse(IF SkippedHref(anchors[i]) THEN acc
                  ELSE Append(acc, extractLink(anchors[i], baseURL)),
                  anchors, baseURL, i + 1)

\* HTMLParser.ParseHTML: the links and the error
ParseHTML(page, baseURL) ==
    IF page.gzipBad
    THEN [Links |-> <<>>,
          err |-> "failed to decompress content: unexpected EOF"]
    ELSE IF ~IsAbs(URLParse(baseURL))
    THEN [Links |-> <<>>, err |-> "invalid base URL: " \o baseURL]
    ELSE [Links |-> traverse(<<>>, page.anchors, URLParse(baseURL), 1),
          err |-> NilErr]

\* what the root server answers to the Fetcher
RootResponses == { Resp(200), Resp(399), Resp(400), Resp(404),
                   ErrResp(ErrConn) }

fetchWebPageAnyStatus(r) ==
    IF r.err # NilErr
    THEN [ok |-> FALSE, err |-> "failed to fetch URL: " \o r.err]
    ELSE [ok |-> TRUE, err |-> NilErr]

\* Analyzer.fetchWebPage applied to what httpClient.Get returned
fetchWebPage(r) ==
    IF r.err # NilErr
    THEN [ok |-> FALSE, err |-> "failed to fetch URL: " \o r.err]
    ELSE IF r.code >= 400
    THEN [ok |-> FALSE,
          err |-> "HTTP error: status code " \o ToString(r.code)]
    ELSE [ok |-> TRUE, err |-> NilErr]

\* the statuses the link-checker service can report for a link: probed 200,
\* probed 404, or timed out
StatusesOf(l) == { CheckLink(l, Resp(200)), CheckLink(l, Resp(404)),
                   CheckTimeout(l) }

\* status lists the service can answer for ls: same length, same links
StatusLists(ls) ==
    { s \in [DOMAIN ls -> UNION { StatusesOf(ls[i]) : i \in DOMAIN ls }] :
        \A i \in DOMAIN ls : s[i] \in StatusesOf(ls[i]) }

\* answers of the link-checker service to POST /check: a transport error,
\* a non-200 answer with an error body, 200 without link_statuses, and 200
\* with a status list
ServiceAnswers(ls) ==
    { [err |-> ErrConn, code |-> 0, error |-> "", statuses |-> <<>>],
      [err |-> NilErr, code |-> 500, error |-> "Failed to check links",
       statuses |-> <<>>],
      [err |-> NilErr, code |-> 200, error |-> "", statuses |-> <<>>] }
    \cup { [err |-> NilErr, code |-> 200, error |-> "", statuses |-> s] :
             s \in StatusLists(ls) }

\* LinkCheckerClient.CheckLinks: the statuses (nil is the empty list) and
\* the error
ClientCheckLinks(ctxDone, ls, ans) ==
    IF Len(ls) = 0 THEN [statuses |-> <<>>, err |-> NilErr]
    ELSE IF ctxDone
    THEN [statuses |-> <<>>,
          err |-> "link checker service error: context deadline exceeded"]
    ELSE IF ans.err # NilErr
    THEN [statuses |-> <<>>,
          err |-> "link checker service error: " \o ans.err]
    ELSE IF ans.code # 200
    THEN [statuses |-> <<>>, err |-> ans.error]
    ELSE [statuses |-> ans.statuses, err |-> NilErr]

\* summarizeLinks: statusMap[status.Link.URL] = status for every status
RECURSIVE statusMapFrom(_, _, _)
statusMapFrom(rm, statuses, i) ==
    IF i > Len(statuses) THEN rm
    ELSE statusMapFrom(MapPut(rm, statuses[i]), statuses, i + 1)

summarizeLinksNoExternal(ls, statuses) ==
    LET statusMap == statusMapFrom(EmptyMap, statuses, 1)
    IN [Total |-> Len(ls),
        Internal |->
            Cardinality({ i \in DOMAIN ls : ls[i].Type = "internal" }),
        External |-> 0,
        Inaccessible |->
            Cardinality({ i \in DOMAIN ls :
                            /\ ls[i].URL \in DOMAIN statusMap
                            /\ ~statusMap[ls[i].URL].Accessible })]

\* Analyzer.summarizeLinks
summarizeLinks(ls, statuses) ==
    LET statusMap == statusMapFrom(EmptyMap, statuses, 1)
    IN [Total |-> Len(ls),
        Internal |->
            Cardinality({ i \in DOMAIN ls : ls[i].Type = "internal" }),
        External |->
            Cardinality({ i \in DOMAIN ls : ls[i].Type = "external" }),
        Inaccessible |->
            Cardinality({ i \in DOMAIN ls :
                            /\ ls[i].URL \in DOMAIN statusMap
                            /\ ~statusMap[ls[i].URL].Accessible })]

\* models.AnalysisResult: the fields the link summary bears on
Report(url, summary) == [URL |-> url, Links |-> summary]

containsAnywhere(s, substr) ==
    \E i \in 1..(Len(s) - Len(substr) + 1) :
        SubSeq(s, i, i + Len(substr) - 1) = substr

\* contains of analyzer_handler.go: s begins with substr
contains(s, substr) ==
    Len(s) >= Len(substr) /\ SubSeq(s, 1, Len(substr)) = substr

\* an HTTP answer: status code, error text of models.ErrorResponse, and the
\* report (a sequence of length 0 or 1)
Answer(code, error, report) ==
    [code |-> code, error |-> error, report |-> report]

NoAnswer == Answer(0, "", <<>>)

AnalyzeErrorOnly500(err) ==
    IF err = "context deadline exceeded"
    THEN Answer(504, "Analysis timeout", <<>>)
    ELSE Answer(500, "Failed to analyze URL", <<>>)

\* AnalyzerHandler.Analyze: the answer to a failed AnalyzeURL
AnalyzeError(err) ==
    IF err = "context deadline exceeded"
    THEN Answer(504, "Analysis timeout", <<>>)
    ELSE IF contains(err, "HTTP error")
    THEN Answer(400, err, <<>>)
    ELSE Answer(500, "Failed to analyze URL", <<>>)

\* HTTPAnalyzerClient.Analyze: the error made of a non-200 answer
ClientError(ans) ==
    "analyzer service error (status " \o ToString(ans.code) \o "): "
        \o ans.error

\* APIHandler.AnalyzeURL: the answer to a failed analyzerClient.Analyze
GatewayError(err) ==
    IF err = "context deadline exceeded"
    THEN Answer(504, "Analysis timeout", <<>>)
    ELSE Answer(500, "Analysis failed: " \o err, <<>>)

NoRet == [result |-> <<>>, err |-> "unset"]

\* errors an interfaces.Analyzer can return to the handler
AnalyzerErrors ==
    { "context deadline exceeded", "HTTP error", "HTTP error: status code 404",
      "network timeout", "failed to fetch URL: HTTP error: status code 500",
      "failed to fetch URL: request failed: context deadline exceeded",
      "http error: status code 404" }

\* what an interfaces.Analyzer can return for url: an error without a
\* result, or a result
AnalyzerReturns(url) ==
    { [result |-> <<>>, err |-> e] : e \in AnalyzerErrors }
    \cup { [result |-> <<Report(url, summarizeLinks(<<>>, <<>>))>>,
            err |-> NilErr] }

\* no X-Request-ID header, no "request_id" value in the context
NoId == ""

\* the X-Request-ID headers a caller sends: none, or an identifier
CallerIds == { NoId, "rid-1", "rid-2" }

\* generateRequestID()
generateRequestID == "generated"

RequestIDAlwaysNew(header) == generateRequestID

\* middleware.RequestID: the identifier it stores under "request_id" in the
\* context it hands on and sets as the X-Request-ID response header
RequestID(header) == IF header = "" THEN generateRequestID ELSE header

\* HTTPAnalyzerClient.Analyze: the X-Request-ID header of its request from
\* the "request_id" value of its context
AnalyzerRequestId(ctxId) == IF ctxId # "" THEN ctxId ELSE NoId

\* AnalyzerHandler.Analyze: the "request_id" value of the context it hands
\* to AnalyzeURL is that of r.Context(); the header is only logged
AnalyzeContextId(header) == NoId

\* LinkCheckerClient.CheckLinks: the X-Request-ID header of its request
\* from the "request_id" value of its context
LinkCheckerRequestId(ctxId) == IF ctxId # NoId THEN ctxId ELSE NoId

InitAnalyze ==
    /\ aPc = "idle"
    /\ aVia = "none"
    /\ gBody = Marshal("")
    /\ aBody = Marshal("")
    /\ aUrl = ""
    /\ aCtxDone = FALSE
    /\ aFetched = ErrResp(NilErr)
    /\ aPage = NoPage
    /\ aLinks = <<>>
    /\ aCheck = [statuses |-> <<>>, err |-> "unset"]
    /\ aRet = NoRet
    /\ aHttp = NoAnswer
    /\ gRet = NoRet
    /\ gHttp = NoAnswer
    /\ analyzerCalls = 0
    /\ parserCalls = 0
    /\ checkerCalls = 0
    /\ checkerInput = <<>>
    /\ gHdrId = "unset"
    /\ gCtxId = "unset"
    /\ aHdrId = "unset"
    /\ cHdrId = "unset"
    /\ gRespId = "unset"
    /\ aMetrics = <<>>
    /\ aServed = NoPage

----------------------------------------------------------------------------
(* The batch probe request: LinkHandler.CheckLinks *)

\* request bodies of POST /check: not JSON, JSON without links, and JSON
\* with a link list (which may be empty)
LinkBodies ==
    { [json |-> FALSE, hasLinks |-> FALSE, links |-> <<>>],
      [json |-> TRUE, hasLinks |-> FALSE, links |-> <<>>] }
    \cup { [json |-> TRUE, hasLinks |-> TRUE, links |-> ls] : ls \in LinkLists }

\* json.NewDecoder(r.Body).Decode(&req) with req.Links []models.Link
DecodeLinks(body) ==
    IF ~body.json
    THEN [err |-> "invalid character", Links |-> <<>>]
    ELSE [err |-> NilErr,
          Links |-> IF body.hasLinks THEN body.links ELSE <<>>]

\* what an interfaces.LinkChecker can return for ls: an error without
\* statuses, or any list of statuses of links of ls of at most MaxLinks
CheckerReturns(ls) ==
    { [statuses |-> <<>>, err |-> "checker error"] }
    \cup { [statuses |-> st, err |-> NilErr] :
             st \in UNION { [1..n -> UNION { StatusesOf(ls[i]) :
                                               i \in DOMAIN ls }] :
                              n \in 0..MaxLinks } }

\* request bodies of POST /check-single: not JSON, JSON without link (the
\* zero Link), and JSON with a link whose URL may be empty
SingleBodies ==
    { [json |-> FALSE, hasLink |-> FALSE, link |-> NoLink],
      [json |-> TRUE, hasLink |-> FALSE, link |-> NoLink] }
    \cup { [json |-> TRUE, hasLink |-> TRUE, link |-> l] :
             l \in Links \cup { [URL |-> "", Text |-> "x",
                                 Type |-> "internal"] } }

\* json.NewDecoder(r.Body).Decode(&req) with req.Link models.Link
DecodeLink(body) ==
    IF ~body.json
    THEN [err |-> "invalid character", Link |-> NoLink]
    ELSE [err |-> NilErr,
          Link |-> IF body.hasLink THEN body.link
                   ELSE [URL |-> "", Text |-> "", Type |-> ""]]

\* an answer of the link handler: status code, error text, link_statuses
LinkAnswer(code, error, statuses) ==
    [code |-> code, error |-> error, statuses |-> statuses]

NoLinkAnswer == LinkAnswer(0, "", <<>>)

InitHandler ==
    /\ hPc = "idle"
    /\ hBody = [json |-> TRUE, hasLinks |-> FALSE, links |-> <<>>]
    /\ hRet = [statuses |-> <<>>, err |-> "unset"]
    /\ hHttp = NoLinkAnswer
    /\ hCalls = 0

----------------------------------------------------------------------------
(* The walker on a document with anchors and forms: HTMLParser.ParseHTML *)

MaxForms == 2
MaxInputs == 2
MaxDocAnchors == 1

\* strings.ToLower of a one-character string
LowerChar(c) ==
    CASE c = "A" -> "a" [] c = "B" -> "b" [] c = "C" -> "c" [] c = "D" -> "d"
      [] c = "E" -> "e" [] c = "F" -> "f" [] c = "G" -> "g" [] c = "H" -> "h"
      [] c = "I" -> "i" [] c = "J" -> "j" [] c = "K" -> "k" [] c = "L" -> "l"
      [] c = "M" -> "m" [] c = "N" -> "n" [] c = "O" -> "o" [] c = "P" -> "p"
      [] c = "Q" -> "q" [] c = "R" -> "r" [] c = "S" -> "s" [] c = "T" -> "t"
      [] c = "U" -> "u" [] c = "V" -> "v" [] c = "W" -> "w" [] c = "X" -> "x"
      [] c = "Y" -> "y" [] c = "Z" -> "z" [] OTHER -> c

\* strings.ToLower
RECURSIVE ToLower(_)
ToLower(s) ==
    IF Len(s) = 0 THEN ""
    ELSE LowerChar(SubSeq(s, 1, 1)) \o ToLower(SubSeq(s, 2, Len(s)))

\* strings.Contains
StringsContains(s, substr) ==
    \E i \in 1..(Len(s) - Len(substr) + 1) :
        SubSeq(s, i, i + Len(substr) - 1) = substr

\* the action attributes of the forms ("" also stands for no attribute)
FormActions == { "", "/save", "/SignIn" }

\* the input elements of the forms: their type and name attributes
Inputs == { [type |-> "text", name |-> "q"],
            [type |-> "Password", name |-> "pw"],
            [type |-> "text", name |-> "UserEmail"] }

\* the form elements: the action and the input elements below the form
Forms == [action : FormActions,
          inputs : UNION { [1..n -> Inputs] : n \in 0..MaxInputs }]

loginKeywords == { "login", "signin", "sign-in", "authenticate", "auth" }
usernameKeywords == { "username", "user", "email", "login", "uid" }

isLoginFormNoAction(form) ==
    LET formAction == ToLower(form.action)
        hasPasswordInput ==
            \E i \in DOMAIN form.inputs :
                ToLower(form.inputs[i].type) = "password"
        hasUsernameInput ==
            \E i \in DOMAIN form.inputs : \E keyword \in usernameKeywords :
                StringsContains(ToLower(form.inputs[i].name), keyword)
    IN IF \E keyword \in loginKeywords : StringsContains(formAction, keyword)
       THEN TRUE
       ELSE hasPasswordInput /\ hasUsernameInput

\* HTMLParser.isLoginForm
isLoginForm(form) ==
    LET formAction == ToLower(form.action)
        hasPasswordInput ==
            \E i \in DOMAIN form.inputs :
                ToLower(form.inputs[i].type) = "password"
        hasUsernameInput ==
            \E i \in DOMAIN form.inputs : \E keyword \in usernameKeywords :
                StringsContains(ToLower(form.inputs[i].name), keyword)
    IN IF \E keyword \in loginKeywords : StringsContains(formAction, keyword)
       THEN TRUE
       ELSE hasPasswordInput /\ (hasUsernameInput \/ formAction # "")

\* HTMLParser.traverse restricted to the forms: result.HasLoginForm
RECURSIVE traverseForms(_, _, _)
traverseForms(acc, forms, i) ==
    IF i > Len(forms) THEN acc
    ELSE traverseForms(IF isLoginForm(forms[i]) THEN TRUE ELSE acc,
                       forms, i + 1)

\* the hrefs of the documents handed to the walker
DocHrefs == Hrefs \cup { "http://A/x" }

\* the base URLs handed to the walker
DocBases == { RootURL, "http://B" }

\* plain documents without title elements: the href of each anchor and the
\* forms, in document order
Docs == [anchors : UNION { [1..n -> DocHrefs] : n \in 0..MaxDocAnchors },
         forms : UNION { [1..n -> Forms] : n \in 0..MaxForms },
         titles : { <<>> }]

MaxTitles == 3

\* strings.TrimSpace, for the space character
RECURSIVE TrimSpace(_)
TrimSpace(s) ==
    IF Len(s) = 0 THEN ""
    ELSE IF SubSeq(s, 1, 1) = " " THEN TrimSpace(SubSeq(s, 2, Len(s)))
    ELSE IF SubSeq(s, Len(s), Len(s)) = " "
    THEN TrimSpace(SubSeq(s, 1, Len(s) - 1))
    ELSE s

\* the title elements: the text of the first child, "" for an element
\* without children
TitleTexts == { "", " ", "T1", " T2 " }

\* HTMLParser.traverse restricted to the title elements: result.Title
RECURSIVE traverseTitles(_, _, _)
traverseTitles(acc, titles, i) ==
    IF i > Len(titles) THEN acc
    ELSE traverseTitles(IF titles[i] # "" THEN TrimSpace(titles[i]) ELSE acc,
                        titles, i + 1)

\* plain documents without forms: the title elements and the href of each
\* anchor, in document order
TitleDocs == [anchors : UNION { [1..n -> DocHrefs] : n \in 0..MaxDocAnchors },
              forms : { <<>> },
              titles : UNION { [1..n -> TitleTexts] : n \in 0..MaxTitles }]

InitParse ==
    /\ pPc = "idle"
    /\ pDoc = [anchors |-> <<>>, forms |-> <<>>, titles |-> <<>>]
    /\ pBase = RootURL
    /\ pOut = [Links |-> <<>>, HasLoginForm |-> FALSE, Title |-> ""]

----------------------------------------------------------------------------
(* The gateway batch request: APIHandler.BatchAnalyze *)

\* BatchAnalyze: if len(req.URLs) > 100
maxBatchURLs == 100

MaxShortBatch == 2

\* the URLs of a batch: one the analyzer reports on, one whose root answers
\* 404, one with either outcome, and the empty URL
BatchURLs == { "http://ok", "http://bad", "http://any", "" }

\* a list of n URLs, alternately one that is reported on and one that fails
LongList(n) == [i \in 1..n |-> IF i % 2 = 1 THEN "http://ok" ELSE "http://bad"]

\* request bodies of POST /batch-analyze: not JSON, JSON without urls, and
\* JSON with a URL list: every list of at most MaxShortBatch URLs, and the
\* lists of maxBatchURLs and maxBatchURLs + 1 URLs
BatchBodies ==
    { [json |-> FALSE, hasUrls |-> FALSE, urls |-> <<>>],
      [json |-> TRUE, hasUrls |-> FALSE, urls |-> <<>>] }
    \cup { [json |-> TRUE, hasUrls |-> TRUE, urls |-> us] :
             us \in UNION { [1..n -> BatchURLs] : n \in 0..MaxShortBatch }
                    \cup { LongList(maxBatchURLs),
                           LongList(maxBatchURLs + 1) } }

\* json.NewDecoder(r.Body).Decode(&req) with req a
\* models.BatchAnalysisRequest
DecodeBatch(body) ==
    IF ~body.json
    THEN [err |-> "invalid character", URLs |-> <<>>]
    ELSE [err |-> NilErr, URLs |-> IF body.hasUrls THEN body.urls ELSE <<>>]

\* the report of an analysis of url that found no links
EmptyReport(url) == Report(url, summarizeLinks(<<>>, <<>>))

\* what the analyzer service answers to POST /analyze for url
AnalyzerAnswers(url) ==
    IF url = "" THEN { Answer(400, "URL is required", <<>>) }
    ELSE IF url = "http://ok" THEN { Answer(200, "", <<EmptyReport(url)>>) }
    ELSE IF url = "http://bad"
    THEN { AnalyzeError("HTTP error: status code 404") }
    ELSE { Answer(200, "", <<EmptyReport(url)>>),
           AnalyzeError("HTTP error: status code 404"),
           AnalyzeError("failed to parse HTML: unexpected EOF") }

\* models.ErrorResponse of BatchAnalyze for url
BatchError(err, url) ==
    [Error |-> err, Details |-> "Failed to analyze: " \o url]

\* an answer of BatchAnalyze: status code, error text, results and errors
BatchAnswer(code, error, res, errs) ==
    [code |-> code, error |-> error, results |-> res, errors |-> errs]

InitBatch ==
    /\ bPc = "idle"
    /\ bBody = [json |-> TRUE, hasUrls |-> FALSE, urls |-> <<>>]
    /\ bIdx = 0
    /\ bCtxDone = FALSE
    /\ bResults = <<>>
    /\ bErrors = <<>>
    /\ bHttp = BatchAnswer(0, "", <<>>, <<>>)
    /\ bCalls = <<>>

----------------------------------------------------------------------------
(* Initial state: NewConcurrentLinkChecker has run, nothing else has *)

Init ==
    /\ jobQueue = <<>>
    /\ jobClosed = FALSE
    /\ resultQueue = <<>>
    /\ resultClosed = FALSE
    /\ stopClosed = FALSE
    /\ startCtxDone = FALSE
    /\ nStarts = 0
    /\ wState = [w \in Workers |-> "unborn"]
    /\ wJob = [w \in Workers |-> NoJob]
    /\ wStatus = [w \in Workers |-> NoStatus]
    /\ stopPc = [s \in Stops |-> "idle"]
    /\ pc = [b \in Batches |-> "idle"]
    /\ links = [b \in Batches |-> <<>>]
    /\ done = [b \in Batches |-> FALSE]
    /\ idx = [b \in Batches |-> 0]
    /\ sub = [b \in Batches |-> [i \in Slots |-> "none"]]
    /\ collector = [b \in Batches |-> "none"]
    /\ resultMap = [b \in Batches |-> EmptyMap]
    /\ results = [b \in Batches |-> <<>>]
    /\ retErr = [b \in Batches |-> "unset"]
    /\ single = [k \in Singles |-> "idle"]
    /\ singleLink = [k \in Singles |-> NoLink]
    /\ singleResp = [k \in Singles |-> ErrResp(NilErr)]
    /\ singleStatus = [k \in Singles |-> NoStatus]
    /\ panicked = FALSE
    /\ enqueued = [b \in Batches |-> [i \in Slots |-> 0]]
    /\ probes = [b \in Batches |-> [i \in Slots |-> 0]]
    /\ earlyProbe = [b \in Batches |-> FALSE]
    /\ foreign = [b \in Batches |-> FALSE]
    /\ InitAnalyze
    /\ InitHandler
    /\ InitParse
    /\ InitBatch

----------------------------------------------------------------------------
(* Channel helpers *)

CanSend(q) == Len(q) < QueueCap

Live(w) == wState[w] \in {"idle", "probing", "sending"}

\* checkCtx.Done() of call b is closed: the timeout fired or the caller
\* cancelled, or the call returned and its deferred cancel() ran
CtxDone(b) == done[b] \/ pc[b] = "returned"

\* executions of CheckLink that have started and not yet returned
InFlight == Cardinality({ w \in Workers : wState[w] = "probing" })
            + Cardinality({ k \in Singles : single[k] = "probing" })

\* workerWG counter
workerWG == Cardinality({ w \in Workers : Live(w) })

Panic ==
    /\ panicked' = TRUE
    /\ UNCHANGED <<analyzeVars, handlerVars, chanVars, poolVars, batchVars, singleVars, histVars>>

----------------------------------------------------------------------------
(* Start, Stop and the context given to Start *)

\* ConcurrentLinkChecker.Start: spawns workerPoolSize workers
Start ==
    /\ ~panicked
    /\ nStarts < LifeStarts
    /\ nStarts' = nStarts + 1
    /\ wState' = [w \in Workers |->
                    IF w > nStarts * W /\ w <= (nStarts + 1) * W
                    THEN "idle" ELSE wState[w]]
    /\ UNCHANGED <<analyzeVars, handlerVars, chanVars, startCtxDone, wJob, wStatus, stopPc, batchVars,
                   singleVars, histVars, panicked>>

\* main: cancel() of the context given to Start
CancelStart ==
    /\ ~panicked
    /\ ~startCtxDone
    /\ startCtxDone' = TRUE
    /\ UNCHANGED <<analyzeVars, handlerVars, chanVars, nStarts, wState, wJob, wStatus, stopPc,
                   batchVars, singleVars, histVars, panicked>>

\* Stop: close(c.stopChan)
StopCloseStop(s) ==
    /\ ~panicked
    /\ stopPc[s] = "idle"
    /\ IF stopClosed
       THEN Panic
       ELSE /\ stopClosed' = TRUE
            /\ stopPc' = [stopPc EXCEPT ![s] = "closeJobs"]
            /\ UNCHANGED <<analyzeVars, handlerVars, jobQueue, jobClosed, resultQueue, resultClosed,
                           startCtxDone, nStarts, wState, wJob, wStatus,
                           batchVars, singleVars, histVars, panicked>>

\* Stop: close(c.jobQueue)
StopCloseJobs(s) ==
    /\ ~panicked
    /\ stopPc[s] = "closeJobs"
    /\ IF jobClosed
       THEN Panic
       ELSE /\ jobClosed' = TRUE
            /\ stopPc' = [stopPc EXCEPT ![s] = "wait"]
            /\ UNCHANGED <<analyzeVars, handlerVars, jobQueue, resultQueue, resultClosed, stopClosed,
                           startCtxDone, nStarts, wState, wJob, wStatus,
                           batchVars, singleVars, histVars, panicked>>

\* Stop: c.workerWG.Wait()
StopWait(s) ==
    /\ ~panicked
    /\ stopPc[s] = "wait"
    /\ workerWG = 0
    /\ stopPc' = [stopPc EXCEPT ![s] = "closeResults"]
    /\ UNCHANGED <<analyzeVars, handlerVars, chanVars, startCtxDone, nStarts, wState, wJob, wStatus,
                   batchVars, singleVars, histVars, panicked>>

\* Stop: close(c.resultQueue)
StopCloseResults(s) ==
    /\ ~panicked
    /\ stopPc[s] = "closeResults"
    /\ IF resultClosed
       THEN Panic
       ELSE /\ resultClosed' = TRUE
            /\ stopPc' = [stopPc EXCEPT ![s] = "done"]
            /\ UNCHANGED <<analyzeVars, handlerVars, jobQueue, jobClosed, resultQueue, stopClosed,
                           startCtxDone, nStarts, wState, wJob, wStatus,
                           batchVars, singleVars, histVars, panicked>>

----------------------------------------------------------------------------
(* worker *)

\* worker select: case <-ctx.Done() / case <-c.stopChan
WorkerExit(w) ==
    /\ ~panicked
    /\ wState[w] = "idle"
    /\ startCtxDone \/ stopClosed \/ (jobQueue = <<>> /\ jobClosed)
    /\ wState' = [wState EXCEPT ![w] = "exited"]
    /\ UNCHANGED <<analyzeVars, handlerVars, chanVars, startCtxDone, nStarts, wJob, wStatus, stopPc,
                   batchVars, singleVars, histVars, panicked>>

\* worker select: case job, ok := <-c.jobQueue with ok; CheckLink begins
WorkerTakeJob(w) ==
    /\ ~panicked
    /\ wState[w] = "idle"
    /\ jobQueue # <<>>
    /\ LET job == Head(jobQueue) IN
        /\ jobQueue' = Tail(jobQueue)
        /\ wJob' = [wJob EXCEPT ![w] = job]
        /\ wState' = [wState EXCEPT ![w] = "probing"]
        /\ probes' = [probes EXCEPT ![job.b][job.i] = @ + 1]
        /\ earlyProbe' = [earlyProbe EXCEPT ![job.b] = @ \/ ~CtxDone(job.b)]
    /\ UNCHANGED <<analyzeVars, handlerVars, jobClosed, resultQueue, resultClosed, stopClosed,
                   startCtxDone, nStarts, wStatus, stopPc, batchVars,
                   singleVars, enqueued, foreign, panicked>>

\* status := c.CheckLink(job.ctx, job.link) returns
WorkerProbeDone(w, R) ==
    /\ ~panicked
    /\ wState[w] = "probing"
    /\ \E resp \in R :
        wStatus' = [wStatus EXCEPT ![w] =
            CheckLink(wJob[w].link, Get(CtxDone(wJob[w].b), resp))]
    /\ wState' = [wState EXCEPT ![w] = "sending"]
    /\ UNCHANGED <<analyzeVars, handlerVars, chanVars, startCtxDone, nStarts, wJob, stopPc, batchVars,
                   singleVars, histVars, panicked>>

\* worker send select: case c.resultQueue <- status
WorkerSend(w) ==
    /\ ~panicked
    /\ wState[w] = "sending"
    /\ IF resultClosed
       THEN Panic
       ELSE /\ CanSend(resultQueue)
            /\ resultQueue' = Append(resultQueue, Sent(wStatus[w], wJob[w].b))
            /\ wState' = [wState EXCEPT ![w] = "idle"]
            /\ wJob' = [wJob EXCEPT ![w] = NoJob]
            /\ wStatus' = [wStatus EXCEPT ![w] = NoStatus]
            /\ UNCHANGED <<analyzeVars, handlerVars, jobQueue, jobClosed, resultClosed, stopClosed,
                           startCtxDone, nStarts, stopPc, batchVars,
                           singleVars, histVars, panicked>>

\* worker send select: case <-ctx.Done(): return without sending
WorkerSendCancelled(w) ==
    /\ ~panicked
    /\ wState[w] = "sending"
    /\ startCtxDone
    /\ wState' = [wState EXCEPT ![w] = "exited"]
    /\ wJob' = [wJob EXCEPT ![w] = NoJob]
    /\ wStatus' = [wStatus EXCEPT ![w] = NoStatus]
    /\ UNCHANGED <<analyzeVars, handlerVars, chanVars, startCtxDone, nStarts, stopPc, batchVars,
                   singleVars, histVars, panicked>>

----------------------------------------------------------------------------
(* CheckLinks: the calling goroutine *)

\* calls are numbered in the order they are made
MayCall(b) == pc[b] = "idle" /\ (IF b = 1 THEN TRUE ELSE pc[b - 1] # "idle")

\* the empty call with the collector started before the length test
CallEmptyAfterSetup(b) ==
    /\ ~panicked
    /\ MayCall(b)
    /\ links' = [links EXCEPT ![b] = <<>>]
    /\ results' = [results EXCEPT ![b] = <<>>]
    /\ retErr' = [retErr EXCEPT ![b] = "nil"]
    /\ collector' = [collector EXCEPT ![b] = "running"]
    /\ pc' = [pc EXCEPT ![b] = "returned"]
    /\ UNCHANGED <<analyzeVars, handlerVars, chanVars, poolVars, done, idx, sub, resultMap,
                   singleVars, histVars, panicked>>

\* if len(links) == 0 { return []models.LinkStatus{}, nil }
CallEmpty(b) ==
    /\ ~panicked
    /\ MayCall(b)
    /\ links' = [links EXCEPT ![b] = <<>>]
    /\ results' = [results EXCEPT ![b] = <<>>]
    /\ retErr' = [retErr EXCEPT ![b] = "nil"]
    /\ pc' = [pc EXCEPT ![b] = "returned"]
    /\ UNCHANGED <<analyzeVars, handlerVars, chanVars, poolVars, done, idx, sub, collector, resultMap,
                   singleVars, histVars, panicked>>

\* entry with a non-empty list: checkCtx is derived from ctx, the collector
\* goroutine is started; ctxDone: the caller's context is already cancelled
CallBatch(b, ls, ctxDone) ==
    /\ ~panicked
    /\ MayCall(b)
    /\ Len(ls) > 0
    /\ links' = [links EXCEPT ![b] = ls]
    /\ done' = [done EXCEPT ![b] = ctxDone]
    /\ collector' = [collector EXCEPT ![b] = "running"]
    /\ idx' = [idx EXCEPT ![b] = 1]
    /\ pc' = [pc EXCEPT ![b] = "submit"]
    /\ UNCHANGED <<analyzeVars, handlerVars, chanVars, poolVars, sub, resultMap, results, retErr,
                   singleVars, enqueued, probes, earlyProbe, foreign,
                   panicked>>

\* the batch timeout fires or the caller cancels
Cancel(b) ==
    /\ ~panicked
    /\ pc[b] \in {"submit", "wait"}
    /\ ~done[b]
    /\ done' = [done EXCEPT ![b] = TRUE]
    /\ UNCHANGED <<analyzeVars, handlerVars, chanVars, poolVars, pc, links, idx, sub, collector,
                   resultMap, results, retErr, singleVars, enqueued, probes,
                   earlyProbe, foreign, panicked>>

\* one iteration of "for _, link := range links": the select with default.
\* "break" in the Done case leaves the select, not the loop.
SubmitLoop(b) ==
    /\ ~panicked
    /\ pc[b] = "submit"
    /\ LET i == idx[b] IN
        /\ sub' = [sub EXCEPT ![b][i] = IF done[b] THEN @ ELSE "pending"]
        /\ idx' = [idx EXCEPT ![b] = i + 1]
        /\ pc' = [pc EXCEPT ![b] = IF i + 1 > Len(links[b])
                                   THEN "wait" ELSE "submit"]
    /\ UNCHANGED <<analyzeVars, handlerVars, chanVars, poolVars, links, done, collector, resultMap,
                   results, retErr, singleVars, histVars, panicked>>

\* jobWG.Wait(), time.Sleep(100ms), resultWG.Wait(); the map is converted
\* to the slice; return results, nil (the deferred cancel() runs: see
\* CtxDone)
Return(b) ==
    /\ ~panicked
    /\ pc[b] = "wait"
    /\ \A i \in Slots : sub[b][i] \in {"none", "done"}
    /\ collector[b] = "done"
    /\ results' = [results EXCEPT ![b] = Materialize(links[b], resultMap[b])]
    /\ retErr' = [retErr EXCEPT ![b] = "nil"]
    /\ pc' = [pc EXCEPT ![b] = "returned"]
    /\ UNCHANGED <<analyzeVars, handlerVars, chanVars, poolVars, links, done, idx, sub, collector,
                   resultMap, singleVars, histVars, panicked>>

----------------------------------------------------------------------------
(* CheckLinks: the submitter goroutines and the collector goroutine *)

\* the submitter that stays in its select after a successful send
SubmitJobAgain(b, i) ==
    /\ ~panicked
    /\ sub[b][i] = "pending"
    /\ IF jobClosed
       THEN Panic
       ELSE /\ CanSend(jobQueue)
            /\ jobQueue' = Append(jobQueue,
                                  [b |-> b, i |-> i, link |-> links[b][i]])
            /\ enqueued' = [enqueued EXCEPT ![b][i] = @ + 1]
            /\ UNCHANGED <<analyzeVars, handlerVars, jobClosed, resultQueue, resultClosed, stopClosed,
                           poolVars, batchVars, singleVars, probes,
                           earlyProbe, foreign, panicked>>

\* select: case c.jobQueue <- linkCheckJob{ctx: checkCtx, link: l}
SubmitJob(b, i) ==
    /\ ~panicked
    /\ sub[b][i] = "pending"
    /\ IF jobClosed
       THEN Panic
       ELSE /\ CanSend(jobQueue)
            /\ jobQueue' = Append(jobQueue,
                                  [b |-> b, i |-> i, link |-> links[b][i]])
            /\ sub' = [sub EXCEPT ![b][i] = "done"]
            /\ enqueued' = [enqueued EXCEPT ![b][i] = @ + 1]
            /\ UNCHANGED <<analyzeVars, handlerVars, jobClosed, resultQueue, resultClosed, stopClosed,
                           poolVars, pc, links, done, idx, collector,
                           resultMap, results, retErr, singleVars, probes,
                           earlyProbe, foreign, panicked>>

\* select: case <-checkCtx.Done()
SubmitLost(b, i) ==
    /\ ~panicked
    /\ sub[b][i] = "pending"
    /\ done[b]
    /\ sub' = [sub EXCEPT ![b][i] = "timeout"]
    /\ UNCHANGED <<analyzeVars, handlerVars, chanVars, poolVars, pc, links, done, idx, collector,
                   resultMap, results, retErr, singleVars, histVars, panicked>>

\* c.resultQueue <- models.LinkStatus{... Error: "Check timeout" ...}
SubmitTimeout(b, i) ==
    /\ ~panicked
    /\ sub[b][i] = "timeout"
    /\ IF resultClosed
       THEN Panic
       ELSE /\ CanSend(resultQueue)
            /\ resultQueue' = Append(resultQueue,
                                     Sent(CheckTimeout(links[b][i]), b))
            /\ sub' = [sub EXCEPT ![b][i] = "done"]
            /\ UNCHANGED <<analyzeVars, handlerVars, jobQueue, jobClosed, resultClosed, stopClosed,
                           poolVars, pc, links, done, idx, collector,
                           resultMap, results, retErr, singleVars, histVars,
                           panicked>>

\* for status := range c.resultQueue { resultMap[status.Link.URL] = status }
Collect(b) ==
    /\ ~panicked
    /\ collector[b] = "running"
    /\ resultQueue # <<>>
    /\ resultMap' = [resultMap EXCEPT ![b] = MapPut(@, Head(resultQueue).status)]
    /\ resultQueue' = Tail(resultQueue)
    /\ foreign' = [foreign EXCEPT ![b] = @ \/ Head(resultQueue).src # b]
    /\ UNCHANGED <<analyzeVars, handlerVars, jobQueue, jobClosed, resultClosed, stopClosed, poolVars,
                   pc, links, done, idx, sub, collector, results, retErr,
                   singleVars, enqueued, probes, earlyProbe, panicked>>

\* the range loop ends: c.resultQueue is closed and drained
CollectEnd(b) ==
    /\ ~panicked
    /\ collector[b] = "running"
    /\ resultQueue = <<>>
    /\ resultClosed
    /\ collector' = [collector EXCEPT ![b] = "done"]
    /\ UNCHANGED <<analyzeVars, handlerVars, chanVars, poolVars, pc, links, done, idx, sub, resultMap,
                   results, retErr, singleVars, histVars, panicked>>

----------------------------------------------------------------------------
(* LinkHandler.CheckSingleLink: CheckLink on the handler's goroutine *)

\* status := h.linkChecker.CheckLink(ctx, req.Link) begins
SingleStart(k, link) ==
    /\ ~panicked
    /\ single[k] = "idle"
    /\ single' = [single EXCEPT ![k] = "probing"]
    /\ singleLink' = [singleLink EXCEPT ![k] = link]
    /\ UNCHANGED <<analyzeVars, handlerVars, chanVars, poolVars, batchVars, singleResp, singleStatus,
                   histVars, panicked>>

\* CheckLink returns; the handler answers 200 with the status
SingleDone(k, R) ==
    /\ ~panicked
    /\ single[k] = "probing"
    /\ \E resp \in R :
        /\ singleResp' = [singleResp EXCEPT ![k] = Get(FALSE, resp)]
        /\ singleStatus' = [singleStatus EXCEPT ![k] =
                              CheckLink(singleLink[k], Get(FALSE, resp))]
    /\ single' = [single EXCEPT ![k] = "done"]
    /\ UNCHANGED <<analyzeVars, handlerVars, chanVars, poolVars, batchVars, singleLink, histVars,
                   panicked>>

----------------------------------------------------------------------------
(* One analysis request, entering at the gateway or at the analyzer *)

\* AnalyzeURL has returned
AnalyzeReturned == aRet.err # "unset"

\* the request is being served
InProgress == aPc \in {"posted", "fetch", "parse", "check", "analyzed"}

\* the caller's deadline fires: ctx.Done() of the request is closed
Deadline ==
    /\ InProgress \/ (aPc = "answered" /\ aVia = "gateway")
    /\ ~aCtxDone
    /\ aCtxDone' = TRUE
    /\ UNCHANGED <<checkerVars, aMetrics, aServed, gRespId, gHdrId, gCtxId, aHdrId, cHdrId, aPc, aVia, gBody, aBody, aUrl, aFetched,
                   aPage, aLinks, aCheck, aRet, aHttp, gRet, gHttp,
                   analyzerCalls, parserCalls, checkerCalls, checkerInput>>

\* APIHandler.AnalyzeURL: decode, validate, and analyzerClient.Analyze up to
\* the POST to the analyzer service
GatewayAnalyze(body) ==
    /\ aPc = "idle"
    /\ aVia' = "gateway"
    /\ gBody' = body
    /\ \E header \in CallerIds :
        /\ gHdrId' = header
        /\ gCtxId' = RequestID(header)
        /\ gRespId' = RequestID(header)
    /\ LET req == Decode(body) IN
        IF req.err # NilErr
        THEN /\ gHttp' = Answer(400, "Invalid request format", <<>>)
             /\ aPc' = "done"
             /\ UNCHANGED <<aBody, aHdrId>>
        ELSE IF req.URL = ""
        THEN /\ gHttp' = Answer(400, "URL is required", <<>>)
             /\ aPc' = "done"
             /\ UNCHANGED <<aBody, aHdrId>>
        ELSE /\ aBody' = Marshal(req.URL)
             /\ aHdrId' = AnalyzerRequestId(gCtxId')
             /\ aPc' = "posted"
             /\ gHttp' = gHttp
    /\ UNCHANGED <<checkerVars, aMetrics, aServed, cHdrId, aUrl, aCtxDone, aFetched, aPage, aLinks,
                   aCheck, aRet, aHttp, gRet, analyzerCalls, parserCalls,
                   checkerCalls, checkerInput>>

\* a request sent to the analyzer service itself
DirectAnalyze(body) ==
    /\ aPc = "idle"
    /\ aVia' = "direct"
    /\ aBody' = body
    /\ \E header \in CallerIds : aHdrId' = header
    /\ aPc' = "posted"
    /\ UNCHANGED <<checkerVars, aMetrics, aServed, gRespId, gHdrId, gCtxId, cHdrId, gBody, aUrl, aCtxDone, aFetched, aPage,
                   aLinks, aCheck, aRet, aHttp, gRet, gHttp, analyzerCalls,
                   parserCalls, checkerCalls, checkerInput>>

AnalyzeNoUrlCheck ==
    /\ aPc = "posted"
    /\ LET req == Decode(aBody) IN
        IF req.err # NilErr
        THEN /\ aHttp' = Answer(400, "Invalid request format", <<>>)
             /\ aPc' = "answered"
             /\ UNCHANGED <<aUrl, analyzerCalls>>
        ELSE /\ aUrl' = req.URL
             /\ analyzerCalls' = analyzerCalls + 1
             /\ aPc' = "fetch"
             /\ aHttp' = aHttp
    /\ UNCHANGED <<checkerVars, aMetrics, aServed, gRespId, gHdrId, gCtxId, aHdrId, cHdrId, aVia, gBody, aBody, aCtxDone, aFetched,
                   aPage, aLinks, aCheck, aRet, gRet, gHttp, parserCalls,
                   checkerCalls, checkerInput>>

\* AnalyzerHandler.Analyze: decode, validate, call h.analyzer.AnalyzeURL
Analyze ==
    /\ aPc = "posted"
    /\ LET req == Decode(aBody) IN
        IF req.err # NilErr
        THEN /\ aHttp' = Answer(400, "Invalid request format", <<>>)
             /\ aPc' = "answered"
             /\ UNCHANGED <<aUrl, analyzerCalls>>
        ELSE IF req.URL = ""
        THEN /\ aHttp' = Answer(400, "URL is required", <<>>)
             /\ aPc' = "answered"
             /\ UNCHANGED <<aUrl, analyzerCalls>>
        ELSE /\ aUrl' = req.URL
             /\ analyzerCalls' = analyzerCalls + 1
             /\ aPc' = "fetch"
             /\ aHttp' = aHttp
    /\ UNCHANGED <<checkerVars, aMetrics, aServed, gRespId, gHdrId, gCtxId, aHdrId, cHdrId, aVia, gBody, aBody, aCtxDone, aFetched,
                   aPage, aLinks, aCheck, aRet, gRet, gHttp, parserCalls,
                   checkerCalls, checkerInput>>

\* AnalyzeURL: response, err := a.fetchWebPage(ctx, url)
Fetch(resp, page) ==
    /\ aPc = "fetch"
    /\ LET r == Get(aCtxDone, resp)
           f == fetchWebPage(r)
       IN /\ aFetched' = r
          /\ IF f.ok
             THEN /\ aPage' = LimitRead(page)
                  /\ aServed' = page
                  /\ aMetrics' = aMetrics
                  /\ aPc' = "parse"
                  /\ aRet' = aRet
             ELSE /\ aRet' = [result |-> <<>>, err |-> f.err]
                  /\ aPc' = "analyzed"
                  /\ aMetrics' = aMetrics \o <<FALSE, TRUE>>
                  /\ UNCHANGED <<aPage, aServed>>
    /\ UNCHANGED <<checkerVars, gRespId, gHdrId, gCtxId, aHdrId, cHdrId, aVia, gBody, aBody, aUrl, aCtxDone, aLinks,
                   aCheck, aHttp, gRet, gHttp, analyzerCalls, parserCalls,
                   checkerCalls, checkerInput>>

\* AnalyzeURL: DetectHTMLVersion and ParseHTML
Parse ==
    /\ aPc = "parse"
    /\ parserCalls' = parserCalls + 1
    /\ LET parsed == ParseHTML(aPage, aUrl) IN
        IF parsed.err # NilErr
        THEN /\ aRet' = [result |-> <<>>,
                         err |-> "failed to parse HTML: " \o parsed.err]
             /\ aPc' = "analyzed"
             /\ aLinks' = aLinks
             /\ aMetrics' = Append(aMetrics, TRUE)
        ELSE /\ aLinks' = parsed.Links
             /\ aPc' = "check"
             /\ aRet' = aRet
             /\ aMetrics' = aMetrics
    /\ UNCHANGED <<checkerVars, aServed, gRespId, gHdrId, gCtxId, aHdrId, cHdrId, aVia, gBody, aBody, aUrl, aCtxDone, aFetched,
                   aPage, aCheck, aHttp, gRet, gHttp, analyzerCalls,
                   checkerCalls, checkerInput>>

CheckAbortOnError ==
    /\ aPc = "check"
    /\ \E ans \in ServiceAnswers(aLinks) :
        LET c == ClientCheckLinks(aCtxDone, aLinks, ans) IN
            /\ aCheck' = c
            /\ aRet' = IF c.err # NilErr
                       THEN [result |-> <<>>,
                             err |-> "failed to check links: " \o c.err]
                       ELSE [result |->
                               <<Report(aUrl,
                                        summarizeLinks(aLinks, c.statuses))>>,
                             err |-> NilErr]
    /\ checkerCalls' = checkerCalls + 1
    /\ checkerInput' = aLinks
    /\ cHdrId' = IF Len(aLinks) = 0 THEN cHdrId
                 ELSE LinkCheckerRequestId(AnalyzeContextId(aHdrId))
    /\ aMetrics' = Append(aMetrics, TRUE)
    /\ aPc' = "analyzed"
    /\ UNCHANGED <<checkerVars, aServed, gRespId, gHdrId, gCtxId, aHdrId, aVia, gBody, aBody, aUrl, aCtxDone, aFetched,
                   aPage, aLinks, aHttp, gRet, gHttp, analyzerCalls,
                   parserCalls>>

\* AnalyzeURL: CheckLinks, summarizeLinks, build the result, return
CheckAndSummarize ==
    /\ aPc = "check"
    /\ \E ans \in ServiceAnswers(aLinks) :
        LET c == ClientCheckLinks(aCtxDone, aLinks, ans) IN
            /\ aCheck' = c
            /\ aRet' = [result |->
                          <<Report(aUrl, summarizeLinks(aLinks, c.statuses))>>,
                        err |-> NilErr]
    /\ checkerCalls' = checkerCalls + 1
    /\ checkerInput' = aLinks
    /\ cHdrId' = IF Len(aLinks) = 0 THEN cHdrId
                 ELSE LinkCheckerRequestId(AnalyzeContextId(aHdrId))
    /\ aMetrics' = Append(aMetrics, TRUE)
    /\ aPc' = "analyzed"
    /\ UNCHANGED <<checkerVars, aServed, gRespId, gHdrId, gCtxId, aHdrId, aVia, gBody, aBody, aUrl, aCtxDone, aFetched,
                   aPage, aLinks, aHttp, gRet, gHttp, analyzerCalls,
                   parserCalls>>

\* AnalyzerHandler.Analyze after AnalyzeURL returned
AnalyzeRespond ==
    /\ aPc = "analyzed"
    /\ aHttp' = IF aRet.err # NilErr THEN AnalyzeError(aRet.err)
                ELSE Answer(200, "", aRet.result)
    /\ aPc' = "answered"
    /\ UNCHANGED <<checkerVars, aMetrics, aServed, gRespId, gHdrId, gCtxId, aHdrId, cHdrId, aVia, gBody, aBody, aUrl, aCtxDone, aFetched,
                   aPage, aLinks, aCheck, aRet, gRet, gHttp, analyzerCalls,
                   parserCalls, checkerCalls, checkerInput>>

\* the error of c.httpClient.Do(req) when the gateway's context is done
ClientDeadline == "analyzer service error: context deadline exceeded"

\* HTTPAnalyzerClient.Analyze from the analyzer's answer on
ClientAnalyze(ctxDone, ans) ==
    IF ctxDone THEN [result |-> <<>>, err |-> ClientDeadline]
    ELSE IF ans.code # 200 THEN [result |-> <<>>, err |-> ClientError(ans)]
    ELSE [result |-> ans.report, err |-> NilErr]

\* APIHandler.AnalyzeURL answers from what the client returned
GatewayAnswer(ret) ==
    IF ret.err # NilErr THEN GatewayError(ret.err)
    ELSE Answer(200, "", ret.result)

\* analyzerClient.Analyze returns with the analyzer's answer; the gateway
\* answers
GatewayRespond ==
    /\ aPc = "answered"
    /\ aVia = "gateway"
    /\ LET ret == ClientAnalyze(aCtxDone, aHttp) IN
        /\ gRet' = ret
        /\ gHttp' = GatewayAnswer(ret)
    /\ aPc' = "done"
    /\ UNCHANGED <<checkerVars, aMetrics, aServed, gRespId, gHdrId, gCtxId, aHdrId, cHdrId, aVia, gBody, aBody, aUrl, aCtxDone, aFetched,
                   aPage, aLinks, aCheck, aRet, aHttp, analyzerCalls,
                   parserCalls, checkerCalls, checkerInput>>

\* the gateway's context is done while the analyzer is still at work:
\* c.httpClient.Do returns the context's error and the gateway answers
GatewayTimeout ==
    /\ InProgress
    /\ aVia = "gateway"
    /\ aCtxDone
    /\ LET ret == ClientAnalyze(TRUE, NoAnswer) IN
        /\ gRet' = ret
        /\ gHttp' = GatewayAnswer(ret)
    /\ aPc' = "done"
    /\ UNCHANGED <<checkerVars, aMetrics, aServed, gRespId, gHdrId, gCtxId, aHdrId, cHdrId, aVia, gBody, aBody, aUrl, aCtxDone, aFetched,
                   aPage, aLinks, aCheck, aRet, aHttp, analyzerCalls,
                   parserCalls, checkerCalls, checkerInput>>

\* h.analyzer.AnalyzeURL(ctx, req.URL) of an interfaces.Analyzer returns
AnalyzeURLReturns ==
    /\ aPc = "fetch"
    /\ \E ret \in AnalyzerReturns(aUrl) : aRet' = ret
    /\ aPc' = "analyzed"
    /\ UNCHANGED <<checkerVars, aMetrics, aServed, gRespId, gHdrId, gCtxId, aHdrId, cHdrId, aVia,
                   gBody, aBody, aUrl, aCtxDone, aFetched, aPage, aLinks,
                   aCheck, aHttp, gRet, gHttp, analyzerCalls, parserCalls,
                   checkerCalls, checkerInput>>

----------------------------------------------------------------------------
(* LinkHandler.CheckLinks *)

\* everything but the batch probe request
notHandlerVars == <<chanVars, poolVars, batchVars, singleVars, histVars,
                    panicked, analyzeVars, gwBatchVars>>

\* LinkHandler.CheckLinks: decode, validate, call h.linkChecker.CheckLinks
HandleCheckLinks(body) ==
    /\ hPc = "idle"
    /\ hBody' = body
    /\ LET req == DecodeLinks(body) IN
        IF req.err # NilErr
        THEN /\ hHttp' = LinkAnswer(400, "Invalid request format", <<>>)
             /\ hPc' = "answered"
             /\ hCalls' = hCalls
        ELSE IF Len(req.Links) = 0
        THEN /\ hHttp' = LinkAnswer(400, "No links provided", <<>>)
             /\ hPc' = "answered"
             /\ hCalls' = hCalls
        ELSE /\ hCalls' = hCalls + 1
             /\ hPc' = "checking"
             /\ hHttp' = hHttp
    /\ UNCHANGED <<notHandlerVars, parseVars, hRet>>

LinkHandlerIgnoreError ==
    /\ hPc = "checking"
    /\ \E ret \in CheckerReturns(DecodeLinks(hBody).Links) :
        /\ hRet' = ret
        /\ hHttp' = LinkAnswer(200, "", ret.statuses)
    /\ hPc' = "answered"
    /\ UNCHANGED <<notHandlerVars, parseVars, hBody, hCalls>>

\* LinkHandler.CheckLinks from the return of h.linkChecker.CheckLinks on
LinkHandlerRespond ==
    /\ hPc = "checking"
    /\ \E ret \in CheckerReturns(DecodeLinks(hBody).Links) :
        /\ hRet' = ret
        /\ hHttp' = IF ret.err # NilErr
                    THEN LinkAnswer(500, "Failed to check links", <<>>)
                    ELSE LinkAnswer(200, "", ret.statuses)
    /\ hPc' = "answered"
    /\ UNCHANGED <<notHandlerVars, parseVars, hBody, hCalls>>

----------------------------------------------------------------------------
(* HTMLParser.ParseHTML on a plain document *)

\* HTMLParser.ParseHTML: parse the base URL, traverse the document
ParseDoc(doc, baseURL) ==
    /\ pPc = "idle"
    /\ pDoc' = doc
    /\ pBase' = baseURL
    /\ pOut' = [Links |-> traverse(<<>>, doc.anchors, URLParse(baseURL), 1),
                HasLoginForm |-> traverseForms(FALSE, doc.forms, 1),
                Title |-> traverseTitles("", doc.titles, 1)]
    /\ pPc' = "parsed"
    /\ UNCHANGED <<chanVars, poolVars, batchVars, singleVars, histVars,
                   panicked, analyzeVars, hPc, hBody, hRet, hHttp, hCalls,
                   gwBatchVars>>

\* LinkHandler.CheckSingleLink: decode, validate, call
\* h.linkChecker.CheckLink
HandleCheckSingleLink(body) ==
    /\ hPc = "idle"
    /\ hBody' = body
    /\ LET req == DecodeLink(body) IN
        IF req.err # NilErr
        THEN /\ hHttp' = LinkAnswer(400, "Invalid request format", <<>>)
             /\ hPc' = "answered"
             /\ hCalls' = hCalls
        ELSE IF req.Link.URL = ""
        THEN /\ hHttp' = LinkAnswer(400, "Link URL is required", <<>>)
             /\ hPc' = "answered"
             /\ hCalls' = hCalls
        ELSE /\ hCalls' = hCalls + 1
             /\ hPc' = "probing"
             /\ hHttp' = hHttp
    /\ UNCHANGED <<notHandlerVars, parseVars, hRet>>

SingleLinkRespondByStatus ==
    /\ hPc = "probing"
    /\ \E ctxDone \in BOOLEAN : \E resp \in AllResponses :
        LET status == CheckLink(DecodeLink(hBody).Link, Get(ctxDone, resp))
        IN /\ hRet' = [statuses |-> <<status>>, err |-> NilErr]
           /\ hHttp' = IF status.Accessible
                       THEN LinkAnswer(200, "", <<status>>)
                       ELSE LinkAnswer(500, status.Error, <<>>)
    /\ hPc' = "answered"
    /\ UNCHANGED <<notHandlerVars, parseVars, hBody, hCalls>>

\* LinkHandler.CheckSingleLink from the return of ConcurrentLinkChecker's
\* CheckLink on: the handler answers 200 with the status
SingleLinkRespond ==
    /\ hPc = "probing"
    /\ \E ctxDone \in BOOLEAN : \E resp \in AllResponses :
        LET status == CheckLink(DecodeLink(hBody).Link, Get(ctxDone, resp))
        IN /\ hRet' = [statuses |-> <<status>>, err |-> NilErr]
           /\ hHttp' = LinkAnswer(200, "", <<status>>)
    /\ hPc' = "answered"
    /\ UNCHANGED <<notHandlerVars, parseVars, hBody, hCalls>>

----------------------------------------------------------------------------
(* APIHandler.BatchAnalyze *)

\* everything but the gateway batch request
notGwBatchVars == <<chanVars, poolVars, batchVars, singleVars, histVars,
                    panicked, analyzeVars, hPc, hBody, hRet, hHttp, hCalls,
                    parseVars>>

\* BatchAnalyze: decode and validate, up to the loop over req.URLs
BatchAnalyze(body) ==
    /\ bPc = "idle"
    /\ bBody' = body
    /\ LET req == DecodeBatch(body) IN
        IF req.err # NilErr
        THEN /\ bHttp' = BatchAnswer(400, "Invalid request format", <<>>, <<>>)
             /\ bPc' = "done"
             /\ bIdx' = bIdx
        ELSE IF Len(req.URLs) = 0
        THEN /\ bHttp' = BatchAnswer(400, "At least one URL is required",
                                     <<>>, <<>>)
             /\ bPc' = "done"
             /\ bIdx' = bIdx
        ELSE IF Len(req.URLs) > maxBatchURLs
        THEN /\ bHttp' = BatchAnswer(400, "Maximum 100 URLs allowed per batch",
                                     <<>>, <<>>)
             /\ bPc' = "done"
             /\ bIdx' = bIdx
        ELSE /\ bPc' = "loop"
             /\ bIdx' = 1
             /\ bHttp' = bHttp
    /\ UNCHANGED <<notGwBatchVars, bCtxDone, bResults, bErrors, bCalls>>

\* the caller's deadline fires during the loop
BatchDeadline ==
    /\ bPc = "loop"
    /\ ~bCtxDone
    /\ bCtxDone' = TRUE
    /\ UNCHANGED <<notGwBatchVars, bPc, bBody, bIdx, bResults, bErrors,
                   bHttp, bCalls>>

BatchAnalyzeURLStopOnError ==
    /\ bPc = "loop"
    /\ bIdx <= Len(DecodeBatch(bBody).URLs)
    /\ LET url == DecodeBatch(bBody).URLs[bIdx] IN
        \E ans \in AnalyzerAnswers(url) :
            LET ret == ClientAnalyze(bCtxDone, ans) IN
                /\ bCalls' = Append(bCalls,
                                    [url |-> url, ok |-> ret.err = NilErr])
                /\ IF ret.err # NilErr
                   THEN /\ bErrors' = Append(bErrors, BatchError(ret.err, url))
                        /\ bResults' = bResults
                        /\ bIdx' = Len(DecodeBatch(bBody).URLs) + 1
                   ELSE /\ bResults' = Append(bResults, ret.result[1])
                        /\ bErrors' = bErrors
                        /\ bIdx' = bIdx + 1
    /\ UNCHANGED <<notGwBatchVars, bPc, bBody, bCtxDone, bHttp>>

\* one iteration of "for _, url := range req.URLs":
\* h.analyzerClient.Analyze(ctx, url) and the append to results or errors
BatchAnalyzeURL ==
    /\ bPc = "loop"
    /\ bIdx <= Len(DecodeBatch(bBody).URLs)
    /\ LET url == DecodeBatch(bBody).URLs[bIdx] IN
        \E ans \in AnalyzerAnswers(url) :
            LET ret == ClientAnalyze(bCtxDone, ans) IN
                /\ bCalls' = Append(bCalls,
                                    [url |-> url, ok |-> ret.err = NilErr])
                /\ IF ret.err # NilErr
                   THEN /\ bErrors' = Append(bErrors, BatchError(ret.err, url))
                        /\ bResults' = bResults
                   ELSE /\ bResults' = Append(bResults, ret.result[1])
                        /\ bErrors' = bErrors
    /\ bIdx' = bIdx + 1
    /\ UNCHANGED <<notGwBatchVars, bPc, bBody, bCtxDone, bHttp>>

\* BatchAnalyze after the loop: the answer with results and errors
BatchRespond ==
    /\ bPc = "loop"
    /\ bIdx > Len(DecodeBatch(bBody).URLs)
    /\ bHttp' = BatchAnswer(200, "", bResults, bErrors)
    /\ bPc' = "done"
    /\ UNCHANGED <<notGwBatchVars, bBody, bIdx, bCtxDone, bResults, bErrors,
                   bCalls>>

----------------------------------------------------------------------------
(* Specifications *)

\* Start and Stop as main calls them: MaxStarts and MaxStops times
LifecycleNext ==
    \/ nStarts < MaxStarts /\ Start
    \/ \E s \in 1..MaxStops : StopCloseStop(s)
    \/ \E s \in 1..MaxStops : StopCloseJobs(s)
    \/ \E s \in 1..MaxStops : StopWait(s)
    \/ \E s \in 1..MaxStops : StopCloseResults(s)

\* Start and Stop called repeatedly and concurrently on one checker
RepeatNext ==
    \/ Start
    \/ \E s \in Stops : StopCloseStop(s)
    \/ \E s \in Stops : StopCloseJobs(s)
    \/ \E s \in Stops : StopWait(s)
    \/ \E s \in Stops : StopCloseResults(s)

\* the pool workers, their probes answered from R
WorkerNext(R) ==
    \/ \E w \in Workers : WorkerExit(w)
    \/ \E w \in Workers : WorkerTakeJob(w)
    \/ \E w \in Workers : WorkerProbeDone(w, R)
    \/ \E w \in Workers : WorkerSend(w)

\* main's shutdown: the context given to Start is cancelled
ShutdownNext ==
    \/ CancelStart
    \/ \E w \in Workers : WorkerSendCancelled(w)

\* the CheckLinks calls BS
BatchNext(BS) ==
    \/ \E b \in BS : CallEmpty(b)
    \/ \E b \in BS : \E ls \in ListsFor(b) : \E c \in BOOLEAN :
          CallBatch(b, ls, c)
    \/ \E b \in BS : Cancel(b)
    \/ \E b \in BS : SubmitLoop(b)
    \/ \E b \in BS : Return(b)
    \/ \E b \in BS : \E i \in Slots : SubmitJob(b, i)
    \/ \E b \in BS : \E i \in Slots : SubmitLost(b, i)
    \/ \E b \in BS : \E i \in Slots : SubmitTimeout(b, i)
    \/ \E b \in BS : Collect(b)
    \/ \E b \in BS : CollectEnd(b)

\* the single-link requests, their probes answered from R
SingleNext(R) ==
    \/ \E k \in Singles : \E l \in Links : SingleStart(k, l)
    \/ \E k \in Singles : SingleDone(k, R)

\* concurrent CheckLinks calls on one checker
Next == LifecycleNext \/ WorkerNext(PoolResponses) \/ BatchNext(Batches)

Spec == Init /\ [][Next]_vars

\* the link-checker service: one batch request beside single-link requests
NextService ==
    LifecycleNext \/ ShutdownNext \/ WorkerNext(ServiceResponses)
        \/ BatchNext({1}) \/ SingleNext(ServiceResponses)

SpecService == Init /\ [][NextService]_vars

\* CheckLink alone, over the boundaries of the status code ranges
NextProbe == SingleNext(AllResponses)

SpecProbe == Init /\ [][NextProbe]_vars

\* one CheckLinks call under fair scheduling of the goroutines.  Calling
\* Start, Stop or CheckLinks, and the deadline, are the environment's choice.
NextLive == LifecycleNext \/ WorkerNext(PoolResponses) \/ BatchNext({1})

Fairness ==
    /\ \A s \in Stops : WF_vars(StopCloseJobs(s))
    /\ \A s \in Stops : WF_vars(StopWait(s))
    /\ \A s \in Stops : WF_vars(StopCloseResults(s))
    /\ \A w \in Workers : WF_vars(WorkerExit(w))
    /\ \A w \in Workers : WF_vars(WorkerTakeJob(w))
    /\ \A w \in Workers : WF_vars(WorkerProbeDone(w, PoolResponses))
    /\ \A w \in Workers : WF_vars(WorkerSend(w))
    /\ WF_vars(SubmitLoop(1))
    /\ WF_vars(Return(1))
    /\ \A i \in Slots : WF_vars(SubmitJob(1, i))
    /\ \A i \in Slots : WF_vars(SubmitLost(1, i))
    /\ \A i \in Slots : WF_vars(SubmitTimeout(1, i))
    /\ WF_vars(Collect(1))
    /\ WF_vars(CollectEnd(1))

SpecLive == Init /\ [][NextLive]_vars /\ Fairness

\* repeated Start and Stop calls beside one CheckLinks call
NextRepeat == RepeatNext \/ WorkerNext(PoolResponses) \/ BatchNext({1})

SpecRepeat == Init /\ [][NextRepeat]_vars

\* one analysis request through the gateway or straight to the analyzer,
\* with every root response, root document and link-checker answer
NextAnalyze ==
    \/ \E body \in Bodies : GatewayAnalyze(body)
    \/ \E body \in Bodies : DirectAnalyze(body)
    \/ Analyze
    \/ \E resp \in RootResponses : \E page \in Pages : Fetch(resp, page)
    \/ Parse
    \/ CheckAndSummarize
    \/ AnalyzeRespond
    \/ GatewayRespond
    \/ GatewayTimeout
    \/ Deadline

SpecAnalyze == Init /\ [][NextAnalyze]_vars

\* one analysis request served by the handlers over any interfaces.Analyzer
NextMock ==
    \/ \E body \in Bodies : GatewayAnalyze(body)
    \/ \E body \in Bodies : DirectAnalyze(body)
    \/ Analyze
    \/ AnalyzeURLReturns
    \/ AnalyzeRespond
    \/ GatewayRespond

SpecMock == Init /\ [][NextMock]_vars

\* one batch probe request, with every body and every return of the checker
NextHandler ==
    \/ \E body \in LinkBodies : HandleCheckLinks(body)
    \/ LinkHandlerRespond

SpecHandler == Init /\ [][NextHandler]_vars

\* one single-link probe request, with every body and every answer of the
\* link's server
NextSingle ==
    \/ \E body \in SingleBodies : HandleCheckSingleLink(body)
    \/ SingleLinkRespond

SpecSingle == Init /\ [][NextSingle]_vars

\* one gateway batch request, with every body, every answer of the analyzer
\* service and the caller's deadline
NextBatch ==
    \/ \E body \in BatchBodies : BatchAnalyze(body)
    \/ BatchAnalyzeURL
    \/ BatchDeadline
    \/ BatchRespond

SpecBatch == Init /\ [][NextBatch]_vars

\* one ParseHTML call, with every document and base URL
NextParse == \E doc \in Docs : \E baseURL \in DocBases : ParseDoc(doc, baseURL)

SpecParse == Init /\ [][NextParse]_vars

\* one ParseHTML call, with every document with title elements
NextTitle ==
    \E doc \in TitleDocs : \E baseURL \in DocBases : ParseDoc(doc, baseURL)

SpecTitle == Init /\ [][NextTitle]_vars

----------------------------------------------------------------------------
(* Claims *)

Returned(b) == pc[b] = "returned"
Running(b) == pc[b] \in {"submit", "wait"}

\* C1: whenever CheckLinks(ctx, links) returns, under any interleaving of
\* workers, other calls, cancellation, timeout and Stop, the returned list
\* has exactly len(links) entries.
C1_LengthPreserved ==
    \A b \in Batches : Returned(b) => Len(results[b]) = Len(links[b])

\* a call with two links returned after its deadline fired, with one probed
\* status and one status of a lost submission, while another call had been
\* made on the same checker
C1_Witness ==
    /\ Returned(1) /\ Len(links[1]) >= 2 /\ done[1]
    /\ results[1][1].StatusCode = 200
    /\ results[1][2].Error = "Check timeout"
    /\ pc[2] # "idle" /\ links[2] # <<>>

\* C2: whenever CheckLinks returns, statuses[i].Link.URL = links[i].URL for
\* every index i, also with repeated URLs and with other calls running.
C2_OrderPreserved ==
    \A b \in Batches : Returned(b) =>
        \A i \in (DOMAIN results[b]) \cap (DOMAIN links[b]) :
            results[b][i].Link.URL = links[b][i].URL

\* a call with two different URLs returned both probed statuses, with
\* another call on the same checker
C2_Witness ==
    /\ Returned(1) /\ Len(links[1]) = 2 /\ Len(results[1]) = 2
    /\ links[1][1].URL # links[1][2].URL
    /\ results[1][1].Accessible /\ results[1][2].Accessible
    /\ pc[2] # "idle" /\ links[2] # <<>>

\* C3: every CheckLinks call on a non-empty batch eventually returns once
\* its deadline has elapsed or the caller has cancelled, while the pool is
\* running and without Stop having to be called.
C3_ReturnsWithoutStop ==
    (Running(1) /\ done[1] /\ nStarts > 0)
        ~> (Returned(1) \/ stopClosed \/ panicked)

\* C4: the number of probes in flight in the process never exceeds the
\* pool size W.
C4_BoundedInFlight == InFlight <= W

\* C5: within one CheckLinks call each index causes at most one job to be
\* placed on the job queue and at most one probe.
C5_AtMostOnce ==
    \A b \in Batches : \A i \in Slots :
        enqueued[b][i] <= 1 /\ probes[b][i] <= 1

\* the deadline fired while submission was in progress: the first link was
\* enqueued and probed, the second link's submitter lost against the deadline
C5_Witness ==
    \E b \in Batches :
        /\ Len(links[b]) = 2 /\ done[b]
        /\ enqueued[b][1] = 1 /\ probes[b][1] = 1
        /\ sub[b][2] = "timeout" /\ enqueued[b][2] = 0

\* C6: with two CheckLinks calls running on one checker, a result produced
\* for a job of one call is never received by the other call's collector.
C6_NoCrossBatch == \A b \in Batches : ~foreign[b]

\* C7: if the context of a call is already cancelled, or expires before any
\* probe of the call starts, every returned status has Accessible = false
\* and a non-empty Error.
C7_ExpiredAllInaccessible ==
    \A b \in Batches :
        (Returned(b) /\ links[b] # <<>> /\ done[b] /\ ~earlyProbe[b]) =>
            \A i \in DOMAIN results[b] :
                ~results[b][i].Accessible /\ results[b][i].Error # ""

\* C8: CheckLink's result is accessible exactly when Get returned no error
\* and a code in [200, 399], and then StatusCode is the code and Error is
\* empty; a code >= 400 gives Accessible = false, StatusCode = code and
\* Error = "HTTP <code>"; an error gives Accessible = false, StatusCode = 0.
C8_ProbeOutcome ==
    \A k \in Singles : single[k] = "done" =>
        LET r == singleResp[k]
            st == singleStatus[k]
            completed == r.err = NilErr
        IN /\ st.Accessible <=> (completed /\ r.code >= 200 /\ r.code <= 399)
           /\ st.Accessible => (st.StatusCode = r.code /\ st.Error = "")
           /\ (completed /\ r.code >= 400) =>
                 /\ ~st.Accessible
                 /\ st.StatusCode = r.code
                 /\ st.Error = "HTTP " \o ToString(r.code)
           /\ ~completed => (~st.Accessible /\ st.StatusCode = 0)

\* a probe answered 404 was reported with Error "HTTP 404"
C8_Witness ==
    \E k \in Singles :
        /\ single[k] = "done"
        /\ singleResp[k] = Resp(404)
        /\ singleStatus[k].Error = "HTTP 404"
        /\ singleStatus[k].StatusCode = 404

\* every status CheckLinks or CheckLink has returned
ReturnedStatuses ==
    UNION { { results[b][i] : i \in DOMAIN results[b] } :
              b \in { c \in Batches : Returned(c) } }
    \cup { singleStatus[k] : k \in { j \in Singles : single[j] = "done" } }
    \cup { wStatus[w] : w \in { v \in Workers : wState[v] = "sending" } }

\* C9: every LinkStatus returned by CheckLinks or CheckLink with
\* Accessible = false carries a non-empty Error.
C9_InaccessibleHasError ==
    \A st \in ReturnedStatuses : ~st.Accessible => st.Error # ""

\* a call returned a lost submission's status and a synthesized one, and a
\* single-link probe returned an HTTP error status
C9_Witness ==
    /\ Returned(1) /\ Len(results[1]) = 2
    /\ results[1][1].Error = "Check timeout"
    /\ results[1][2].Error = "Not checked"
    /\ \E k \in Singles :
        single[k] = "done" /\ singleStatus[k].Error = "HTTP 404"

\* C10: CheckLinks called with an empty list returns an empty list and a
\* nil error at once, and leaves the queues, the pool and every goroutine
\* as they were.
C10_EmptyCallFrame ==
    [][\A b \in Batches :
          (pc[b] = "idle" /\ pc'[b] # "idle" /\ links'[b] = <<>>) =>
              /\ pc'[b] = "returned"
              /\ results'[b] = <<>>
              /\ retErr'[b] = "nil"
              /\ UNCHANGED <<chanVars, poolVars, singleVars, histVars,
                             panicked, collector, sub, resultMap, done, idx>>
      ]_vars

\* an empty call returned while another call had jobs and results queued
C10_Witness ==
    /\ Returned(2) /\ links[2] = <<>> /\ results[2] = <<>>
    /\ retErr[2] = "nil" /\ collector[2] = "none"
    /\ Running(1) /\ jobQueue # <<>> /\ resultQueue # <<>>

\* a step of Stop call s that closes a channel
StopCloses(s) == StopCloseStop(s) \/ StopCloseJobs(s) \/ StopCloseResults(s)

\* C11: a second Stop call, after or concurrently with the first, returns
\* normally: none of its steps closes a channel that is already closed
\* (which panics).
C11_SecondStopNoOp ==
    [][\A s \in Stops : StopCloses(s) => ~panicked']_vars

\* C12: after any sequence of Start calls the number of live pool workers
\* never exceeds the pool size W.
C12_WorkersWithinPool == workerWG <= W

\* the root fetch of the returned AnalyzeURL call succeeded with a status
\* below 400
FetchSucceeded ==
    AnalyzeReturned /\ aFetched.err = NilErr /\ aFetched.code < 400

\* the root fetch of the returned AnalyzeURL call failed at transport level
FetchFailed == AnalyzeReturned /\ aFetched.err # NilErr

\* the root fetch of the returned AnalyzeURL call was answered >= 400
FetchRejected ==
    AnalyzeReturned /\ aFetched.err = NilErr /\ aFetched.code >= 400

\* the parser was called and failed
ParseFailed == parserCalls > 0 /\ ParseHTML(aPage, aUrl).err # NilErr

\* CheckLinks was called and returned an error
CheckFailed == checkerCalls > 0 /\ aCheck.err # NilErr

\* the link summary of the returned report
Summary == aRet.result[1].Links

\* C13: whenever the root fetch succeeds with status < 400 and the walk
\* succeeds, AnalyzeURL returns a report and a nil error, whatever the link
\* checker returned.
C13_ReportDespiteChecker ==
    (FetchSucceeded /\ ~ParseFailed) =>
        (aRet.result # <<>> /\ aRet.err = NilErr)

\* AnalyzeURL returned a report for a page with links although CheckLinks
\* had returned an error
C13_Witness ==
    /\ FetchSucceeded /\ CheckFailed /\ Len(aLinks) > 0
    /\ aRet.result # <<>> /\ aRet.err = NilErr

\* C14: when CheckLinks returns an error, the report returned by AnalyzeURL
\* has Links.Inaccessible equal to Links.Total.
C14_CheckFailureAllInaccessible ==
    (AnalyzeReturned /\ aRet.result # <<>> /\ CheckFailed) =>
        Summary.Inaccessible = Summary.Total

\* C15: when the root fetch fails at transport level or is answered with a
\* status >= 400, AnalyzeURL returns an error and no report, and neither the
\* parser nor the link checker has been called.
C15_FetchFailureAborts ==
    (FetchFailed \/ FetchRejected) =>
        /\ aRet.err # NilErr /\ aRet.result = <<>>
        /\ parserCalls = 0 /\ checkerCalls = 0

\* the root was answered 400 and AnalyzeURL returned the HTTP error
C15_Witness ==
    /\ FetchRejected /\ aFetched.code = 400
    /\ aRet.err = "HTTP error: status code 400" /\ aRet.result = <<>>
    /\ parserCalls = 0

\* C16: every report returned by AnalyzeURL has Links.Total equal to the
\* number of links the walker produced, Links.Internal + Links.External
\* equal to Links.Total, and Links.Inaccessible at most Links.Total.
C16_SummaryCounts ==
    (AnalyzeReturned /\ aRet.result # <<>>) =>
        /\ Summary.Total = Len(aLinks)
        /\ Summary.Total =
             Cardinality({ i \in DOMAIN aPage.anchors :
                             ~SkippedHref(aPage.anchors[i]) })
        /\ Summary.Internal + Summary.External = Summary.Total
        /\ Summary.Inaccessible <= Summary.Total

\* a report on a page with one internal and one external link, one of them
\* inaccessible
C16_Witness ==
    /\ AnalyzeReturned /\ aRet.result # <<>>
    /\ Summary.Total = 2 /\ Summary.Internal = 1 /\ Summary.External = 1
    /\ Summary.Inaccessible = 1

\* C17: the link list handed to CheckLinks contains each URL at most once,
\* also when several anchors of the page have the same href.
C17_InputWithoutDuplicates ==
    \A i, j \in DOMAIN checkerInput :
        i # j => checkerInput[i].URL # checkerInput[j].URL

\* C18: when the analysis fails because the caller's deadline fired, the
\* analyzer answers 504 "Analysis timeout", and so does the gateway.
C18_DeadlineAnswers504 ==
    /\ (aHttp # NoAnswer /\ FetchFailed /\ aFetched.err = ErrCtx) =>
          aHttp = Answer(504, "Analysis timeout", <<>>)
    /\ (aPc = "done" /\ gRet.err = ClientDeadline) =>
          gHttp = Answer(504, "Analysis timeout", <<>>)

\* C19: when the root document cannot be fetched (transport failure or
\* status >= 400) or cannot be parsed, the analyzer answers 500 "Failed to
\* analyze URL".
C19_FetchOrParseFailure500 ==
    (aHttp # NoAnswer /\ (FetchFailed \/ FetchRejected \/ ParseFailed)) =>
        aHttp = Answer(500, "Failed to analyze URL", <<>>)

\* C19 as amended: a transport failure of the root fetch or a parse failure
\* is answered 500 "Failed to analyze URL"; a root status >= 400 is answered
\* 400 with the error "HTTP error: status code <code>".
C19_FailureAnswers ==
    /\ (aHttp # NoAnswer /\ (FetchFailed \/ ParseFailed)) =>
          aHttp = Answer(500, "Failed to analyze URL", <<>>)
    /\ (aHttp # NoAnswer /\ FetchRejected) =>
          aHttp = Answer(400, "HTTP error: status code "
                                \o ToString(aFetched.code), <<>>)

\* the analyzer answered 400 for a root answered 404
C19_Witness ==
    /\ FetchRejected /\ aFetched.code = 404
    /\ aHttp = Answer(400, "HTTP error: status code 404", <<>>)

\* C20: a malformed JSON body is answered 400 "Invalid request format", a
\* missing or empty url 400 "URL is required", at the analyzer and at the
\* gateway, and in both cases AnalyzeURL is never called.
C20_InvalidRequests400 ==
    /\ (aHttp # NoAnswer /\ ~aBody.json) =>
          aHttp = Answer(400, "Invalid request format", <<>>)
    /\ (aHttp # NoAnswer /\ aBody.json /\ (~aBody.hasUrl \/ aBody.url = "")) =>
          aHttp = Answer(400, "URL is required", <<>>)
    /\ (aVia = "gateway" /\ aPc = "done" /\ ~gBody.json) =>
          gHttp = Answer(400, "Invalid request format", <<>>)
    /\ (aVia = "gateway" /\ aPc = "done" /\ gBody.json
            /\ (~gBody.hasUrl \/ gBody.url = "")) =>
          gHttp = Answer(400, "URL is required", <<>>)
    /\ (aVia # "none"
            /\ LET body == IF aVia = "gateway" THEN gBody ELSE aBody
               IN ~body.json \/ ~body.hasUrl \/ body.url = "") =>
          analyzerCalls = 0

\* the analyzer answered a JSON body without url with 400 "URL is required"
\* and did not call AnalyzeURL
C20_Witness ==
    /\ aVia = "direct" /\ aBody.json /\ ~aBody.hasUrl
    /\ aHttp = Answer(400, "URL is required", <<>>)
    /\ analyzerCalls = 0

\* C26: a worker never blocks for good on emitting its result (it gives the
\* result up when the batch deadline fires or Stop is signalled), so that
\* every Stop call eventually returns although the context given to Start
\* is never cancelled.
C26_StopReturns ==
    \A s \in 1..MaxStops : (stopPc[s] # "idle") ~> (stopPc[s] = "done")

\* C27: Stop closes the stop channel, then waits until every pool worker has
\* exited, and only after that closes the job queue and the result queue.
C27_QueuesClosedAfterJoin ==
    [][((~jobClosed /\ jobClosed') \/ (~resultClosed /\ resultClosed')) =>
          (stopClosed /\ workerWG = 0)]_vars

\* a step in which a goroutine sends on a queue that is closed
SendOnClosed ==
    \/ \E b \in Batches : \E i \in Slots : jobClosed /\ SubmitJob(b, i)
    \/ \E b \in Batches : \E i \in Slots : resultClosed /\ SubmitTimeout(b, i)
    \/ \E w \in Workers : resultClosed /\ WorkerSend(w)

\* C28: in no interleaving of Stop with CheckLinks calls, nor for a call made
\* after Stop, does a goroutine send on the closed job queue or the closed
\* result queue.
C28_NoSendOnClosedQueue == [][~SendOnClosed]_vars

\* the links of a returned call that were never submitted have a status
\* that is not accessible and carries an error
UnsubmittedSynthesized ==
    \A b \in Batches : Returned(b) =>
        \A i \in DOMAIN results[b] :
            enqueued[b][i] = 0 =>
                (~results[b][i].Accessible /\ results[b][i].Error # "")

\* C29: once the deadline of a call has elapsed or the caller has cancelled,
\* no further job of the call is placed on the job queue, and the links that
\* were not submitted are returned with a timeout status.
C29_NoSubmitAfterDeadline ==
    [][/\ \A b \in Batches : \A i \in Slots :
            enqueued'[b][i] > enqueued[b][i] => ~done[b]
       /\ UnsubmittedSynthesized']_vars

\* C30: within one call the jobs are placed on the job queue in the order of
\* the links: when the job of links[i] is placed, no job of a later link of
\* the call has been placed before it.
C30_SubmitInLinkOrder ==
    [][\A b \in Batches : \A i \in Slots : \A j \in Slots :
          (i < j /\ enqueued[b][i] = 0 /\ enqueued'[b][i] = 1) =>
              enqueued[b][j] = 0]_vars

\* C21: the batch probe operation answers 400 without calling the checker
\* when links is empty, answers 500 exactly when the checker returns an
\* error, and otherwise answers 200 with the checker's status list unchanged
\* in length and order.
C21_BatchProbeAnswers ==
    hPc = "answered" =>
        LET req == DecodeLinks(hBody) IN
            /\ (req.err = NilErr /\ Len(req.Links) = 0) =>
                  (hHttp.code = 400 /\ hCalls = 0)
            /\ hHttp.code = 500 <=> (hCalls > 0 /\ hRet.err # NilErr)
            /\ (hCalls > 0 /\ hRet.err = NilErr) =>
                  (hHttp.code = 200 /\ hHttp.statuses = hRet.statuses)
            /\ hHttp.code \in {200, 400, 500}

\* the handler answered 500 for a checker error
C21_Witness ==
    /\ hPc = "answered" /\ hCalls = 1 /\ hRet.err = "checker error"
    /\ hHttp = LinkAnswer(500, "Failed to check links", <<>>)

\* C22: the request identifier attached at the gateway (the incoming
\* X-Request-ID header, or a generated one) is carried unchanged on the
\* gateway-to-analyzer request and on the analyzer-to-link-checker batch
\* request of the same analysis.
C22_RequestIdCarried ==
    aVia = "gateway" =>
        /\ gHdrId # NoId => gCtxId = gHdrId
        /\ gCtxId # NoId
        /\ aHdrId # "unset" => aHdrId = gCtxId
        /\ cHdrId # "unset" => cHdrId = gCtxId

\* C23: when the root response body exceeds 10 MiB, the fetch succeeds with
\* exactly the first 10 MiB of body and the analysis proceeds to a report
\* with no error on that account, for every root response the Fetcher
\* accepts, plain or gzip-encoded.
C23_TruncatedBodyAnalysed ==
    (FetchSucceeded /\ aServed.size > maxBodySize /\ ~aServed.gzipBad) =>
        /\ aPage.size = maxBodySize
        /\ aRet.err = NilErr

\* the claimed login-form rule: the lowercased action holds a login keyword,
\* or the form has a password input and an input whose lowercased name
\* holds a username keyword
ClaimedLoginForm(form) ==
    \/ \E k \in { "login", "signin", "sign-in", "authenticate", "auth" } :
          StringsContains(ToLower(form.action), k)
    \/ /\ \E i \in DOMAIN form.inputs :
             ToLower(form.inputs[i].type) = "password"
       /\ \E i \in DOMAIN form.inputs :
             \E k \in { "username", "user", "email", "login", "uid" } :
                 StringsContains(ToLower(form.inputs[i].name), k)

\* a password input under a form whose action is set
PasswordWithAction(form) ==
    /\ form.action # ""
    /\ \E i \in DOMAIN form.inputs : ToLower(form.inputs[i].type) = "password"

\* C24 as stated: has_login_form is true iff some form of the document has
\* a login keyword in its lowercased action, or a password input together
\* with an input whose lowercased name holds a username keyword.
C24_LoginFormIff ==
    pPc = "parsed" =>
        (pOut.HasLoginForm <=>
            \E i \in DOMAIN pDoc.forms : ClaimedLoginForm(pDoc.forms[i]))

\* C24 amended: has_login_form is true iff some form of the document has a
\* login keyword in its lowercased action, or a password input together
\* with either an input whose lowercased name holds a username keyword or a
\* non-empty action.
C24_LoginFormIffAmended ==
    pPc = "parsed" =>
        (pOut.HasLoginForm <=>
            \E i \in DOMAIN pDoc.forms :
                \/ ClaimedLoginForm(pDoc.forms[i])
                \/ PasswordWithAction(pDoc.forms[i]))

\* a document flagged for a form with a password input and a plain action
C24_Witness ==
    /\ pPc = "parsed"
    /\ pOut.HasLoginForm
    /\ Len(pDoc.forms) = 2
    /\ \A i \in DOMAIN pDoc.forms : ~ClaimedLoginForm(pDoc.forms[i])
    /\ PasswordWithAction(pDoc.forms[2])

\* C25: every link the walker emits is classified internal iff its resolved
\* host is empty or equals the base document's host compared
\* case-insensitively, and external otherwise.
C25_LinkTypeByHost ==
    pPc = "parsed" =>
        \A i \in DOMAIN pOut.Links :
            LET host == URLParse(pOut.Links[i].URL).Host
                internal == \/ host = ""
                            \/ ToLower(host) = ToLower(URLParse(pBase).Host)
            IN pOut.Links[i].Type = IF internal THEN "internal"
                                    ELSE "external"

\* the links of a returned call for which the collector held no result
Absent(b) == { i \in DOMAIN links[b] : links[b][i].URL \notin DOMAIN resultMap[b] }

\* C31 as stated: a link for which the collector holds no result when the
\* output list is materialized receives the synthesized status
\* {Accessible=false, StatusCode=0, Error="check timeout or not processed"}.
C31_SynthesizedStatus ==
    \A b \in Batches : Returned(b) =>
        \A i \in Absent(b) :
            results[b][i] = [Link |-> links[b][i], Accessible |-> FALSE,
                             StatusCode |-> 0,
                             Error |-> "check timeout or not processed"]

\* C31 amended: such a link receives the synthesized status
\* {Accessible=false, StatusCode=0, Error="Not checked"}.
C31_SynthesizedNotChecked ==
    \A b \in Batches : Returned(b) =>
        \A i \in Absent(b) :
            results[b][i] = [Link |-> links[b][i], Accessible |-> FALSE,
                             StatusCode |-> 0, Error |-> "Not checked"]

\* a call returned while the collector held a result for its first link only
C31_Witness ==
    /\ Returned(1)
    /\ Len(links[1]) = 2
    /\ Absent(1) = {2}

\* CheckLinks returned a status list as long as the link list, with the
\* same URL at every position
StatusesAgree ==
    /\ AnalyzeReturned /\ aRet.result # <<>>
    /\ checkerCalls > 0 /\ aCheck.err = NilErr
    /\ Len(aCheck.statuses) = Len(aLinks)
    /\ \A i \in DOMAIN aLinks : aCheck.statuses[i].Link.URL = aLinks[i].URL

\* C32: summarizeLinks reports Inaccessible equal to the number of positions
\* i with statuses[i].Accessible false, for every link list and status list
\* of equal length whose URLs agree position by position, also when a URL
\* occurs more than once.
C32_InaccessibleByPosition ==
    StatusesAgree =>
        Summary.Inaccessible =
            Cardinality({ i \in DOMAIN aCheck.statuses :
                            ~aCheck.statuses[i].Accessible })

C34_SingleProbeAnswers ==
    (hPc = "answered" /\ DecodeLink(hBody).err = NilErr) =>
        LET link == DecodeLink(hBody).Link IN
            IF link.URL # ""
            THEN /\ hCalls = 1
                 /\ hHttp.code = 200
                 /\ hHttp.statuses = hRet.statuses
                 /\ Len(hHttp.statuses) = 1
                 /\ hHttp.statuses[1].Link = link
            ELSE /\ hHttp = LinkAnswer(400, "Link URL is required", <<>>)
                 /\ hCalls = 0

\* the handler answered 200 with the status of a link answered 404
C34_Witness ==
    /\ hPc = "answered" /\ hHttp.code = 200 /\ Len(hHttp.statuses) = 1
    /\ ~hHttp.statuses[1].Accessible
    /\ hHttp.statuses[1].StatusCode = 404
    /\ hHttp.statuses[1].Error = "HTTP 404"

\* C35: the gateway RequestID middleware keeps an incoming X-Request-ID
\* unchanged and otherwise generates a non-empty one; in both cases the same
\* value is stored in the request context under "request_id" seen by the
\* next handler and set as the X-Request-ID response header.
C35_RequestIdMiddleware ==
    aVia = "gateway" =>
        /\ gCtxId # ""
        /\ gHdrId # "" => gCtxId = gHdrId
        /\ gRespId = gCtxId

\* a request at the gateway with the header kept its identifier
C35_Witness ==
    /\ aVia = "gateway"
    /\ gHdrId = "rid-1" /\ gCtxId = "rid-1" /\ gRespId = "rid-1"

\* the trimmed text of the first title element from position i on that has
\* non-empty text, "" if there is none
RECURSIVE FirstTitle(_, _)
FirstTitle(titles, i) ==
    IF i > Len(titles) THEN ""
    ELSE IF TrimSpace(titles[i]) # "" THEN TrimSpace(titles[i])
    ELSE FirstTitle(titles, i + 1)

\* C36: the walker's title is the trimmed text of the first title element
\* with non-empty text in document order; title elements met later in the
\* walk never overwrite it.
C36_FirstTitleWins ==
    pPc = "parsed" => pOut.Title = FirstTitle(pDoc.titles, 1)

\* C37: each AnalyzeURL call records exactly one analysis metric
\* (RecordAnalysis), and its success flag is true if and only if the call
\* returned a report, on the fetch-failure, parse-failure and success paths
\* alike.
C37_OneMetricPerCall ==
    (AnalyzeReturned /\ analyzerCalls = 1) =>
        /\ Len(aMetrics) = 1
        /\ aMetrics[1] = (aRet.result # <<>>)

\* a call of analyzerClient.Analyze that returned a result, and one that
\* returned an error
CallOk(c) == c.ok
CallFailed(c) == ~c.ok

\* the URLs of a sequence of calls
CallURLs(calls) == [i \in DOMAIN calls |-> calls[i].url]

\* C38: for a gateway batch-analyze request with between 1 and 100 URLs,
\* every URL yields exactly one entry in either results or errors, results
\* keep the request's relative order, and a failure for one URL never keeps
\* the remaining URLs from being analyzed; an empty list or more than 100
\* URLs is answered 400 without calling the analyzer.
C38_BatchAnalyzeEntries ==
    (bPc = "done" /\ DecodeBatch(bBody).err = NilErr) =>
        LET urls == DecodeBatch(bBody).URLs IN
            IF Len(urls) >= 1 /\ Len(urls) <= 100
            THEN /\ bHttp.code = 200
                 /\ Len(bHttp.results) + Len(bHttp.errors) = Len(urls)
                 /\ CallURLs(bCalls) = urls
                 /\ [i \in DOMAIN bHttp.results |-> bHttp.results[i].URL]
                       = CallURLs(SelectSeq(bCalls, CallOk))
                 /\ [i \in DOMAIN bHttp.errors |-> bHttp.errors[i].Details]
                       = [i \in DOMAIN SelectSeq(bCalls, CallFailed) |->
                            "Failed to analyze: "
                                \o SelectSeq(bCalls, CallFailed)[i].url]
            ELSE /\ bHttp.code = 400
                 /\ bCalls = <<>>

\* a batch of 100 URLs was answered with 50 results and 50 errors
C38_Witness ==
    /\ bPc = "done"
    /\ Len(DecodeBatch(bBody).URLs) = 100
    /\ bHttp.code = 200
    /\ Len(bHttp.results) = 50 /\ Len(bHttp.errors) = 50

====
